---- MODULE Spec2Model ----
(***************************************************************************)
(* Model of the Nervus model-orchestration framework:                      *)
(*   src/train.py          the training driver                             *)
(*   src/test.py           the test driver                                 *)
(*   src/lib/framework.py  configuration, life cycle, checkpointing        *)
(* The loss regulator (lib/component.py) is not part of the sources at     *)
(* hand; its operators are written from the specification, section 4.3.    *)
(***************************************************************************)
EXTENDS Integers, Sequences, FiniteSets, TLC

(***************************************************************************)
(* Bounds of the model.                                                    *)
(***************************************************************************)
MaxEpochs == 3
TrainBatches == 2
ValBatches == 1
TestBatches == 1
MaxInstEpochs == 2
MaxHeadSteps == 1

(***************************************************************************)
(* Python values.  None is the empty tuple and a present value v is <<v>>, *)
(* so that a field that may hold None compares with any other value.       *)
(***************************************************************************)
None == <<>>
Some(v) == <<v>>

\* label_list of the configuration: the columns prefixed 'label'.
label_list == <<"label_A", "label_B">>
LabelSet == {label_list[k] : k \in 1..Len(label_list)}
LossKeys == LabelSet \cup {"total"}

\* The outcomes of the criterion: the per-label losses a batch can yield.
BatchLosses ==
    {[label_A |-> 0, label_B |-> 0], [label_A |-> 1, label_B |-> 0], [label_A |-> 1, label_B |-> 1]}

(***************************************************************************)
(* Loss values are exact rationals num/den: the epoch loss is the running  *)
(* sum divided by the dataset size.                                        *)
(***************************************************************************)
Frac(n, d) == [num |-> n, den |-> d]
FracLess(a, b) == a.num * b.den < b.num * a.den
FracEq(a, b) == a.num * b.den = b.num * a.den
FracAdd(a, b) == Frac(a.num * b.den + b.num * a.den, a.den * b.den)

RECURSIVE SumSeq(_, _)
SumSeq(f, s) == IF s = <<>> THEN 0 ELSE f[Head(s)] + SumSeq(f, Tail(s))

RECURSIVE FracSumSeq(_, _)
FracSumSeq(f, s) == IF s = <<>> THEN Frac(0, 1) ELSE FracAdd(f[Head(s)], FracSumSeq(f, Tail(s)))

(***************************************************************************)
(* The dataloaders: each yields a fixed number of batches, and a batch     *)
(* carries len(data['imgpath']) samples.                                   *)
(***************************************************************************)
Batch(n) == [imgpath |-> n]
Dataloader(nbatches) == [k \in 1..nbatches |-> Batch(1)]
RECURSIVE DatasetLen(_)
DatasetLen(dl) == IF dl = <<>> THEN 0 ELSE Head(dl).imgpath + DatasetLen(Tail(dl))

(***************************************************************************)
(* LossRegulator (spec 4.3) and the per-key loss track.                    *)
(***************************************************************************)
EpochLossInit ==
    [train |-> <<>>, val |-> <<>>, best_val_loss |-> None, best_epoch |-> None, update_flag |-> FALSE]

ZeroLoss == [k \in LossKeys |-> 0]

LossRegInit ==
    [batch_loss |-> ZeroLoss, running_loss |-> ZeroLoss, epoch_loss |-> [k \in LossKeys |-> EpochLossInit]]

\* compute_batch_loss: one loss per label, and their sum as the total.
cal_batch_loss_reg(lr, per_label) ==
    [lr EXCEPT !.batch_loss =
        [k \in LossKeys |-> IF k = "total" THEN SumSeq(per_label, label_list) ELSE per_label[k]]]

\* accumulate_running: running sum weighted by batch size, per label and total.
cal_running_loss_reg(lr, batch_size) ==
    [lr EXCEPT !.running_loss = [k \in LossKeys |-> @[k] + lr.batch_loss[k] * batch_size]]

\* Strict improvement of the validation loss, or the first validation epoch.
check_best_val_loss_epoch(el, ep) ==
    LET latest == el.val[Len(el.val)]
    IN  IF el.best_val_loss = None \/ FracLess(latest, el.best_val_loss[1])
        THEN [el EXCEPT !.best_val_loss = Some(latest), !.best_epoch = Some(ep), !.update_flag = TRUE]
        ELSE [el EXCEPT !.update_flag = FALSE]

\* A finalize_epoch that leaves the running sums as they are.
cal_epoch_loss_reg_NoReset(lr, ep, ph, dataset_size) ==
    LET appended == [k \in LossKeys |->
                        [lr.epoch_loss[k] EXCEPT ![ph] = Append(@, Frac(lr.running_loss[k], dataset_size))]]
        checked  == IF ph = "val"
                    THEN [k \in LossKeys |-> check_best_val_loss_epoch(appended[k], ep)]
                    ELSE appended
    IN  [lr EXCEPT !.epoch_loss = checked]

\* finalize_epoch: running sums divided by the dataset size are appended to
\* the histories of the phase; the accumulators start the next phase at zero.
cal_epoch_loss_reg(lr, ep, ph, dataset_size) ==
    LET appended == [k \in LossKeys |->
                        [lr.epoch_loss[k] EXCEPT ![ph] = Append(@, Frac(lr.running_loss[k], dataset_size))]]
        checked  == IF ph = "val"
                    THEN [k \in LossKeys |-> check_best_val_loss_epoch(appended[k], ep)]
                    ELSE appended
    IN  [lr EXCEPT !.epoch_loss = checked, !.running_loss = ZeroLoss]

is_val_loss_updated(el) == el.update_flag
get_best_epoch(el) == el.best_epoch
get_best_val_loss(el) == el.best_val_loss

(***************************************************************************)
(* The network: its parameters (an abstract version number that every      *)
(* optimizer step renews), whether it is wrapped in nn.DataParallel, the   *)
(* device it lives on and its train/eval mode.                             *)
(***************************************************************************)
InitWeights == 0
NetworkInit == [weights |-> InitWeights, wrapped |-> FALSE, device |-> "cpu", training |-> TRUE]

\* state_dict(): the keys of a DataParallel wrapper carry the prefix 'module.';
\* the tensors of the dictionary share their storage with the parameters.
state_dict(net) ==
    [prefix |-> IF net.wrapped THEN "module." ELSE "", tensors |-> net.weights,
     device |-> net.device, shared |-> TRUE]

\* copy.deepcopy of a state dictionary: tensors with a storage of their own.
deepcopy(sd) == [sd EXCEPT !.shared = FALSE]

\* optimizer.step() updates the parameters in place: a state dictionary that
\* shares their storage shows the new values.
step_in_place(sd, net) ==
    IF sd # None /\ sd[1].shared THEN Some([sd[1] EXCEPT !.tensors = net.weights]) ELSE sd

\* _network.module.to(torch.device('cpu'))
module_to_cpu(net) == [net EXCEPT !.wrapped = FALSE, !.device = "cpu"]

\* load_state_dict is strict: the keys must be those of the receiving module.
load_state_dict_ok(net, weight) ==
    /\ weight # None
    /\ weight[1].prefix = state_dict(net).prefix

\* torch.save / torch.load: the object is pickled into the file and back.
torch_save(obj) == [pickle |-> IF obj = None THEN None ELSE Some(deepcopy(obj[1]))]
torch_load(blob) == blob.pickle

(***************************************************************************)
(* Weight files.  A name is 'weight_epoch-' + str(epoch).zfill(3) +        *)
(* ['_best'] + '.pt'; str(None) is 'None', so the name is determined by    *)
(* the epoch (possibly None) and the suffix.                               *)
(***************************************************************************)
WeightName(ep, best) == [epoch |-> ep, best |-> best]

Exists(fs, name) == \E f \in fs : f.name = name
FileOf(fs, name) == CHOOSE f \in fs : f.name = name
WriteFile(fs, name, content, now) ==
    {f \in fs : f.name # name} \cup {[name |-> name, content |-> content, mtime |-> now]}
\* Path.rename: the file keeps content and modification time, replaces the target.
RenameFile(fs, from, to) ==
    {f \in fs : f.name # from /\ f.name # to} \cup {[FileOf(fs, from) EXCEPT !.name = to]}

VARIABLES
    pc,                 \* position of the driver
    opt,                \* the options of the run: epochs, save_weight_policy, gpu_ids
    cuda,               \* the answers torch.cuda.is_available() has given in this run, None before it is asked
    epoch, phase, i,    \* loop variables of the drivers
    network,            \* model.network
    loss,               \* model.loss, the scalar backward() starts from
    loss_reg,           \* model.loss_reg
    acting_best_weight, \* SaveLoadMixin.acting_best_weight
    acting_best_epoch,  \* SaveLoadMixin.acting_best_epoch
    files,              \* the files of <save_datetime_dir>/weights
    clock,              \* file system time
    store_log,          \* history: the epochs at whose end store_weight was invoked
    disk_log,           \* history: the operations performed on the weights directory
    error,              \* the exception that ended the run, or None
    weight_paths,       \* test.py: the weight files to evaluate, oldest first
    w,                  \* test.py: index of the current weight file
    split,              \* test.py: index of the current split
    likelihood,         \* the rows accumulated by make_likelihood
    likelihood_files,   \* the likelihood artifacts written
    args,               \* create_model: the options of the test-time caller
    train_params,       \* the attributes of the TrainModelParam of the training run
    parameters,         \* the content of parameters.json
    params,             \* the attributes of the TestModelParam under construction
    splits_in_df_source,\* the splits present in the data source
    test_splits_arg,    \* create_model: the test_splits argument
    model,              \* the model class create_model selects, or None
    learning_curve,     \* the files of <save_datetime_dir>/learning_curve
    curve_calls,        \* history: the number of calls of save_learning_curve
    net_name,           \* BaseNet: the name of the backbone asked for
    num_classes_in_internal_label, \* BaseNet: the number of classes of each label
    vit_image_size,     \* BaseNet: the input resolution for a ViT
    mlp_num_inputs,     \* BaseNet: the number of inputs for the MLP
    extractor,          \* what constuct_extractor has returned or raised, None before
    multi_classifier,   \* what construct_multi_classifier has returned or raised, None before
    head_parameters,    \* the parameters of the modules of the heads, by module
    data,               \* one batch as the dataloader yields it
    self_attrs,         \* the attributes set_data, forward and cal_batch_loss set on the model
    network_args,       \* the tensors forward has passed to self.network, None before
    class_attrs,        \* the attributes of the class SaveLoadMixin
    models              \* the model instances of one process, besides the one of the run

trainVars == <<epoch, phase, loss, loss_reg, acting_best_weight, acting_best_epoch,
               store_log, disk_log>>
testVars == <<weight_paths, w, split, likelihood, likelihood_files>>

createVars == <<args, train_params, parameters, params, splits_in_df_source,
                test_splits_arg, model>>
curveVars == <<learning_curve, curve_calls>>
netVars == <<net_name, num_classes_in_internal_label, vit_image_size, mlp_num_inputs,
             extractor, multi_classifier, head_parameters>>
batchVars == <<data, self_attrs, network_args>>
runVars == <<opt, cuda, i, network, files, clock, trainVars, testVars, curveVars, netVars,
             batchVars>>

instVars == <<class_attrs, models>>

vars == <<pc, error, runVars, createVars, instVars>>

dataloaders == [train |-> Dataloader(TrainBatches), val |-> Dataloader(ValBatches)]

\* framework.py:488-490: the attributes the class SaveLoadMixin defines
SaveLoadMixin == [acting_best_weight |-> None, acting_best_epoch |-> None]

\* No further model instance exists.
InstIdle ==
    /\ class_attrs = SaveLoadMixin
    /\ models = <<>>

\* No batch is at hand.
BatchIdle ==
    /\ data = None
    /\ self_attrs = <<>>
    /\ network_args = None

\* No network is asked for.
NetIdle ==
    /\ net_name = None
    /\ num_classes_in_internal_label = <<>>
    /\ vit_image_size = None
    /\ mlp_num_inputs = None
    /\ extractor = None
    /\ multi_classifier = None
    /\ head_parameters = <<>>

\* No configuration is under construction.
CreateIdle ==
    /\ args = None
    /\ train_params = None
    /\ parameters = None
    /\ params = None
    /\ splits_in_df_source = {}
    /\ test_splits_arg = {}
    /\ model = None

Init ==
    /\ CreateIdle
    /\ InstIdle
    /\ pc = "create_model"
    /\ opt \in [epochs : 0..MaxEpochs,
                save_weight_policy : {"best", "each"},
                gpu_ids : {<<>>, <<0>>}]
    /\ cuda = None
    /\ epoch = 0
    /\ phase = "train"
    /\ i = 1
    /\ network = NetworkInit
    /\ loss = None
    /\ loss_reg = LossRegInit
    /\ acting_best_weight = None
    /\ acting_best_epoch = None
    /\ files = {}
    /\ clock = 0
    /\ store_log = <<>>
    /\ disk_log = <<>>
    /\ error = None
    /\ weight_paths = <<>>
    /\ w = 1
    /\ split = 1
    /\ likelihood = <<>>
    /\ likelihood_files = {}
    /\ learning_curve = {}
    /\ curve_calls = 0
    /\ NetIdle
    /\ BatchIdle

Raise(e) ==
    /\ pc' = "error"
    /\ error' = Some(e)

(***************************************************************************)
(* BaseModel._enable_on_gpu_if_available                                   *)
(***************************************************************************)
gpu_requested == opt.gpu_ids # <<>>
enable_on_gpu(net) == [net EXCEPT !.device = "cuda", !.wrapped = TRUE]

\* A create_model that puts the network on the GPU without asking whether
\* there is one.
CreateModel_Unchecked ==
    /\ pc = "create_model"
    /\ UNCHANGED <<batchVars, netVars, createVars, instVars, curveVars>>
    /\ network' = IF gpu_requested THEN enable_on_gpu(network) ELSE network
    /\ pc' = "epoch_loop"
    /\ UNCHANGED <<cuda, error>>
    /\ UNCHANGED testVars
    /\ UNCHANGED <<opt, epoch, phase, i, loss, loss_reg, acting_best_weight,
                   acting_best_epoch, files, clock, store_log, disk_log>>

\* train.py:15  create_model(opt.args) with isTrain
CreateModel ==
    /\ pc = "create_model"
    /\ UNCHANGED <<batchVars, netVars, createVars, instVars, curveVars>>
    /\ IF gpu_requested
       THEN \E available \in BOOLEAN :
               /\ cuda' = Append(cuda, available)
               /\ IF available
                  THEN /\ network' = enable_on_gpu(network)
                       /\ pc' = "epoch_loop"
                       /\ UNCHANGED error
                  ELSE /\ Raise("AssertionError: No avalibale GPU on this machine.")
                       /\ UNCHANGED network
       ELSE /\ pc' = "epoch_loop"
            /\ UNCHANGED <<cuda, network, error>>
    /\ UNCHANGED testVars
    /\ UNCHANGED <<opt, epoch, phase, i, loss, loss_reg, acting_best_weight,
                   acting_best_epoch, files, clock, store_log, disk_log>>

\* train.py:19  for epoch in range(model.epochs)
EpochLoop ==
    /\ pc = "epoch_loop"
    /\ UNCHANGED <<batchVars, netVars, createVars, instVars, curveVars>>
    /\ pc' = IF epoch < opt.epochs THEN "phase" ELSE "save_learning_curve"
    /\ phase' = "train"
    /\ UNCHANGED testVars
    /\ UNCHANGED <<opt, cuda, epoch, i, network, loss, loss_reg, acting_best_weight,
                   acting_best_epoch, files, clock, store_log, disk_log, error>>

\* train.py:20-31  model.train() / model.eval(), then the first batch if any
PhaseStart ==
    /\ pc = "phase"
    /\ UNCHANGED <<batchVars, netVars, createVars, instVars, curveVars>>
    /\ network' = [network EXCEPT !.training = (phase = "train")]
    /\ i' = 1
    /\ pc' = IF Len(dataloaders[phase]) >= 1 THEN "set_data" ELSE "cal_epoch_loss"
    /\ UNCHANGED testVars
    /\ UNCHANGED <<opt, cuda, epoch, phase, loss, loss_reg, acting_best_weight,
                   acting_best_epoch, files, clock, store_log, disk_log, error>>

\* train.py:32-33  optimizer.zero_grad(); model.set_data(data)
SetData ==
    /\ pc = "set_data"
    /\ UNCHANGED <<batchVars, netVars, createVars, instVars, curveVars>>
    /\ pc' = "forward"
    /\ UNCHANGED testVars
    /\ UNCHANGED <<opt, cuda, epoch, phase, i, network, loss, loss_reg, acting_best_weight,
                   acting_best_epoch, files, clock, store_log, disk_log, error>>

\* train.py:36  model.forward(): the driver catches no exception, so that one
\* raised by the network (a device out of memory, say) ends the run
Forward ==
    /\ pc = "forward"
    /\ UNCHANGED <<batchVars, netVars, createVars, instVars, curveVars>>
    /\ \/ /\ pc' = "cal_batch_loss"
          /\ UNCHANGED error
       \/ Raise("RuntimeError: forward")
    /\ UNCHANGED testVars
    /\ UNCHANGED <<opt, cuda, epoch, phase, i, network, loss, loss_reg, acting_best_weight,
                   acting_best_epoch, files, clock, store_log, disk_log>>

\* A driver that takes the gradient step in both phases.
CalBatchLoss_AlwaysBackward ==
    /\ pc = "cal_batch_loss"
    /\ UNCHANGED <<batchVars, netVars, createVars, instVars, curveVars>>
    /\ \E per_label \in BatchLosses :
          loss_reg' = cal_batch_loss_reg(loss_reg, per_label)
    /\ pc' = "backward"
    /\ UNCHANGED testVars
    /\ UNCHANGED <<opt, cuda, epoch, phase, i, network, loss, acting_best_weight,
                   acting_best_epoch, files, clock, store_log, disk_log, error>>

\* train.py:37  model.cal_batch_loss(): the criterion yields one loss per label
CalBatchLoss ==
    /\ pc = "cal_batch_loss"
    /\ UNCHANGED <<batchVars, netVars, createVars, instVars, curveVars>>
    /\ \E per_label \in BatchLosses :
          loss_reg' = cal_batch_loss_reg(loss_reg, per_label)
    /\ pc' = IF phase = "train" THEN "backward" ELSE "cal_running_loss"
    /\ UNCHANGED testVars
    /\ UNCHANGED <<opt, cuda, epoch, phase, i, network, loss, acting_best_weight,
                   acting_best_epoch, files, clock, store_log, disk_log, error>>

\* A driver that goes on to the running loss without the optimizer step.
Backward_SkipOptimize ==
    /\ pc = "backward"
    /\ UNCHANGED <<batchVars, netVars, createVars, instVars, curveVars>>
    /\ loss' = Some(loss_reg.batch_loss["total"])
    /\ pc' = "cal_running_loss"
    /\ UNCHANGED testVars
    /\ UNCHANGED <<opt, cuda, epoch, phase, i, network, loss_reg, acting_best_weight,
                   acting_best_epoch, files, clock, store_log, disk_log, error>>

\* A backward that starts from the loss of the first label only.
backward_loss_FirstLabel(lr) == lr.batch_loss[label_list[1]]

\* framework.py:414-419  BaseModel.backward
backward_loss(lr) == lr.batch_loss["total"]

Backward ==
    /\ pc = "backward"
    /\ UNCHANGED <<batchVars, netVars, createVars, instVars, curveVars>>
    /\ loss' = Some(backward_loss(loss_reg))
    /\ pc' = "optimize_parameters"
    /\ UNCHANGED testVars
    /\ UNCHANGED <<opt, cuda, epoch, phase, i, network, loss_reg, acting_best_weight,
                   acting_best_epoch, files, clock, store_log, disk_log, error>>

\* framework.py:421-425  BaseModel.optimize_parameters: optimizer.step()
OptimizeParameters ==
    /\ pc = "optimize_parameters"
    /\ UNCHANGED <<batchVars, netVars, createVars, instVars, curveVars>>
    /\ network' = [network EXCEPT !.weights = @ + 1]
    /\ acting_best_weight' = step_in_place(acting_best_weight, network')
    /\ pc' = "cal_running_loss"
    /\ UNCHANGED testVars
    /\ UNCHANGED <<opt, cuda, epoch, phase, i, loss, loss_reg,
                   acting_best_epoch, files, clock, store_log, disk_log, error>>

\* A driver that stores the weight after every batch.
CalRunningLoss_Checkpointing ==
    /\ pc = "cal_running_loss"
    /\ UNCHANGED <<batchVars, netVars, createVars, instVars, curveVars>>
    /\ loss_reg' = cal_running_loss_reg(loss_reg, dataloaders[phase][i].imgpath)
    /\ acting_best_weight' = Some(deepcopy(state_dict(module_to_cpu(network))))
    /\ i' = i + 1
    /\ pc' = IF i + 1 <= Len(dataloaders[phase]) THEN "set_data" ELSE "cal_epoch_loss"
    /\ UNCHANGED testVars
    /\ UNCHANGED <<opt, cuda, epoch, phase, network, loss,
                   acting_best_epoch, files, clock, store_log, disk_log, error>>

\* train.py:43  model.cal_running_loss(batch_size=len(data['imgpath'])), next batch
CalRunningLoss ==
    /\ pc = "cal_running_loss"
    /\ UNCHANGED <<batchVars, netVars, createVars, instVars, curveVars>>
    /\ loss_reg' = cal_running_loss_reg(loss_reg, dataloaders[phase][i].imgpath)
    /\ i' = i + 1
    /\ pc' = IF i + 1 <= Len(dataloaders[phase]) THEN "set_data" ELSE "cal_epoch_loss"
    /\ UNCHANGED testVars
    /\ UNCHANGED <<opt, cuda, epoch, phase, network, loss, acting_best_weight,
                   acting_best_epoch, files, clock, store_log, disk_log, error>>

\* A driver that finalizes the epoch loss of the train phase only.
CalEpochLoss_TrainOnly ==
    /\ pc = "cal_epoch_loss"
    /\ UNCHANGED <<batchVars, netVars, createVars, instVars, curveVars>>
    /\ loss_reg' = IF phase = "train"
                   THEN cal_epoch_loss_reg(loss_reg, epoch, phase, DatasetLen(dataloaders[phase]))
                   ELSE loss_reg
    /\ IF phase = "train"
       THEN /\ phase' = "val"
            /\ pc' = "phase"
       ELSE /\ phase' = phase
            /\ pc' = "is_total_val_loss_updated"
    /\ UNCHANGED testVars
    /\ UNCHANGED <<opt, cuda, epoch, i, network, loss, acting_best_weight,
                   acting_best_epoch, files, clock, store_log, disk_log, error>>

\* train.py:45  model.cal_epoch_loss(epoch, phase, dataset_size), next phase
CalEpochLoss ==
    /\ pc = "cal_epoch_loss"
    /\ UNCHANGED <<batchVars, netVars, createVars, instVars, curveVars>>
    /\ loss_reg' = cal_epoch_loss_reg(loss_reg, epoch, phase, DatasetLen(dataloaders[phase]))
    /\ IF phase = "train"
       THEN /\ phase' = "val"
            /\ pc' = "phase"
       ELSE /\ phase' = phase
            /\ pc' = "is_total_val_loss_updated"
    /\ UNCHANGED testVars
    /\ UNCHANGED <<opt, cuda, epoch, i, network, loss, acting_best_weight,
                   acting_best_epoch, files, clock, store_log, disk_log, error>>

\* framework.py:452-461  BaseModel.is_total_val_loss_updated
is_total_val_loss_updated == is_val_loss_updated(loss_reg.epoch_loss["total"])

\* A driver that stores the weight at the end of every epoch.
CheckUpdated_Always ==
    /\ pc = "is_total_val_loss_updated"
    /\ UNCHANGED <<batchVars, netVars, createVars, instVars, curveVars>>
    /\ pc' = "store_weight"
    /\ UNCHANGED testVars
    /\ UNCHANGED <<opt, cuda, epoch, phase, i, network, loss, loss_reg, acting_best_weight,
                   acting_best_epoch, files, clock, store_log, disk_log, error>>

\* train.py:47-49  print_epoch_loss; if model.is_total_val_loss_updated()
CheckUpdated ==
    /\ pc = "is_total_val_loss_updated"
    /\ UNCHANGED <<batchVars, netVars, createVars, instVars, curveVars>>
    /\ IF is_total_val_loss_updated
       THEN /\ pc' = "store_weight"
            /\ epoch' = epoch
       ELSE /\ pc' = "epoch_loop"
            /\ epoch' = epoch + 1
    /\ UNCHANGED testVars
    /\ UNCHANGED <<opt, cuda, phase, i, network, loss, loss_reg, acting_best_weight,
                   acting_best_epoch, files, clock, store_log, disk_log, error>>

\* A store_weight that counts epochs from one.
store_weight_epoch_OneBased(lr) == Some(get_best_epoch(lr.epoch_loss["total"])[1] + 1)

\* framework.py:493-503  SaveLoadMixin.store_weight
store_weight_epoch(lr) == get_best_epoch(lr.epoch_loss["total"])

\* A store_weight that keeps the state dictionary without copying it.
store_weight_snapshot_NoDeepCopy(net) ==
    IF net.wrapped
    THEN Some(state_dict(module_to_cpu(net)))
    ELSE Some(state_dict(net))

\* framework.py:498-503: _network is a deep copy of self.network, and the
\* state dictionary taken from it is copied once more
store_weight_snapshot(net) ==
    IF net.wrapped
    THEN Some(deepcopy(state_dict(module_to_cpu(net))))
    ELSE Some(deepcopy(state_dict(net)))

\* framework.py:493-503: what store_weight leaves; the move to the CPU is
\* applied to the deep copy, self.network is not assigned
store_weight(net, lr) ==
    [acting_best_epoch |-> store_weight_epoch(lr),
     acting_best_weight |-> store_weight_snapshot(net),
     network |-> net]

\* A driver that under 'each' saves the weight of the first epoch as well.
StoreWeight_EachFromZero ==
    /\ pc = "store_weight"
    /\ UNCHANGED <<batchVars, netVars, createVars, instVars, curveVars>>
    /\ LET r == store_weight(network, loss_reg)
       IN  /\ acting_best_epoch' = r.acting_best_epoch
           /\ acting_best_weight' = r.acting_best_weight
           /\ network' = r.network
    /\ store_log' = Append(store_log, epoch)
    /\ IF opt.save_weight_policy = "each"
       THEN /\ pc' = "save_weight"
            /\ epoch' = epoch
       ELSE /\ pc' = "epoch_loop"
            /\ epoch' = epoch + 1
    /\ UNCHANGED testVars
    /\ UNCHANGED <<opt, cuda, phase, i, loss, loss_reg, files, clock, disk_log, error>>

\* train.py:50-51
StoreWeight ==
    /\ pc = "store_weight"
    /\ UNCHANGED <<batchVars, netVars, createVars, instVars, curveVars>>
    /\ LET r == store_weight(network, loss_reg)
       IN  /\ acting_best_epoch' = r.acting_best_epoch
           /\ acting_best_weight' = r.acting_best_weight
           /\ network' = r.network
    /\ store_log' = Append(store_log, epoch)
    /\ IF epoch > 0 /\ opt.save_weight_policy = "each"
       THEN /\ pc' = "save_weight"
            /\ epoch' = epoch
       ELSE /\ pc' = "epoch_loop"
            /\ epoch' = epoch + 1
    /\ UNCHANGED testVars
    /\ UNCHANGED <<opt, cuda, phase, i, loss, loss_reg, files, clock, disk_log, error>>

\* A save_weight that writes the best file without looking for an earlier one.
save_weight_AlwaysWrite(fs, log, now, as_best) ==
    LET save_path == WeightName(acting_best_epoch, as_best)
    IN  [files |-> WriteFile(fs, save_path, torch_save(acting_best_weight), now),
         log   |-> Append(log, [op |-> "save", name |-> save_path, to |-> save_path])]

\* A save_weight that writes the parameters the network has when it is called.
save_weight_LiveNetwork(fs, log, now, as_best) ==
    LET save_path == WeightName(acting_best_epoch, FALSE)
        save_path_as_best == WeightName(acting_best_epoch, TRUE)
        live == Some(deepcopy(state_dict(module_to_cpu(network))))
    IN  IF as_best
        THEN [files |-> WriteFile({f \in fs : f.name # save_path}, save_path_as_best, torch_save(live), now),
              log   |-> Append(log, [op |-> "save", name |-> save_path_as_best, to |-> save_path_as_best])]
        ELSE [files |-> WriteFile(fs, save_path, torch_save(live), now),
              log   |-> Append(log, [op |-> "save", name |-> save_path, to |-> save_path])]

\* framework.py:505-528  SaveLoadMixin.save_weight: the files and the log it leaves
save_weight(fs, log, now, as_best) ==
    LET save_path == WeightName(acting_best_epoch, FALSE)
        save_path_as_best == WeightName(acting_best_epoch, TRUE)
    IN  IF as_best
        THEN IF Exists(fs, save_path)
             THEN [files |-> RenameFile(fs, save_path, save_path_as_best),
                   log   |-> Append(log, [op |-> "rename", name |-> save_path, to |-> save_path_as_best])]
             ELSE [files |-> WriteFile(fs, save_path_as_best, torch_save(acting_best_weight), now),
                   log   |-> Append(log, [op |-> "save", name |-> save_path_as_best, to |-> save_path_as_best])]
        ELSE [files |-> WriteFile(fs, save_path, torch_save(acting_best_weight), now),
              log   |-> Append(log, [op |-> "save", name |-> save_path, to |-> save_path])]

\* train.py:52  model.save_weight(as_best=False)
SaveWeightEach ==
    /\ pc = "save_weight"
    /\ UNCHANGED <<batchVars, netVars, createVars, instVars, curveVars>>
    /\ LET r == save_weight(files, disk_log, clock + 1, FALSE)
       IN  /\ files' = r.files
           /\ disk_log' = r.log
    /\ clock' = clock + 1
    /\ epoch' = epoch + 1
    /\ pc' = "epoch_loop"
    /\ UNCHANGED testVars
    /\ UNCHANGED <<opt, cuda, phase, i, network, loss, loss_reg, acting_best_weight,
                   acting_best_epoch, store_log, error>>

\* f"{x:.4f}": the loss rounded to four decimals
format_4f(x) == [ten_thousandths |-> (2 * 10000 * x.num + x.den) \div (2 * x.den)]

\* The DataFrame of one track: a row per epoch with its train and val loss.
curve_rows(el) ==
    [j \in 1..Len(el.train) |-> [train_loss |-> el.train[j], val_loss |-> el.val[j]]]

\* 'learning_curve_' + label_name + '_val-best-epoch-' + best_epoch +
\* '_val-best-loss-' + best_val_loss + '.csv'
curve_name(label_name, el) ==
    [label_name |-> label_name,
     best_epoch |-> get_best_epoch(el),
     best_val_loss |-> IF get_best_val_loss(el) = None THEN None
                       ELSE Some(format_4f(get_best_val_loss(el)[1]))]

\* A save_learning_curve that writes the table of the total only.
save_learning_curve_TotalOnly(lr) ==
    {[name |-> curve_name("total", lr.epoch_loss["total"]),
      rows |-> curve_rows(lr.epoch_loss["total"])]}

\* framework.py:545-565  SaveLoadMixin.save_learning_curve: the files written
save_learning_curve(lr) ==
    {[name |-> curve_name(label_name, lr.epoch_loss[label_name]),
      rows |-> curve_rows(lr.epoch_loss[label_name])] : label_name \in LabelSet \cup {"total"}}

\* train.py:54  model.save_learning_curve().  Before the first epoch a track
\* has the best_val_loss lib/component.py starts it with: one that
\* f"{...:.4f}" rejects ends the run with a TypeError, one that it accepts
\* gives the file names of the initial values.
SaveLearningCurve ==
    /\ pc = "save_learning_curve"
    /\ UNCHANGED <<batchVars, netVars, createVars, instVars>>
    /\ curve_calls' = curve_calls + 1
    /\ LET written == save_learning_curve(loss_reg)
           saved == {f \in learning_curve : \A g \in written : g.name # f.name} \cup written
       IN  IF \A k \in LossKeys : get_best_val_loss(loss_reg.epoch_loss[k]) # None
           THEN /\ learning_curve' = saved
                /\ pc' = "save_weight_as_best"
                /\ UNCHANGED error
           ELSE \/ /\ learning_curve' = saved
                   /\ pc' = "save_weight_as_best"
                   /\ UNCHANGED error
                \/ /\ Raise("TypeError: unsupported format string passed to NoneType.__format__")
                   /\ UNCHANGED learning_curve
    /\ UNCHANGED testVars
    /\ UNCHANGED <<opt, cuda, epoch, phase, i, network, loss, loss_reg, acting_best_weight,
                   acting_best_epoch, files, clock, store_log, disk_log>>

\* train.py:55  model.save_weight(as_best=True)
SaveWeightAsBest ==
    /\ pc = "save_weight_as_best"
    /\ UNCHANGED <<batchVars, netVars, createVars, instVars, curveVars>>
    /\ LET r == save_weight(files, disk_log, clock + 1, TRUE)
       IN  /\ files' = r.files
           /\ disk_log' = r.log
    /\ clock' = clock + 1
    /\ pc' = "save_parameter"
    /\ UNCHANGED testVars
    /\ UNCHANGED <<opt, cuda, epoch, phase, i, network, loss, loss_reg, acting_best_weight,
                   acting_best_epoch, store_log, error>>

\* train.py:56  model.save_parameter()
SaveParameter ==
    /\ pc = "save_parameter"
    /\ UNCHANGED <<batchVars, netVars, createVars, instVars, curveVars>>
    /\ pc' = "done"
    /\ UNCHANGED testVars
    /\ UNCHANGED <<opt, cuda, epoch, phase, i, network, loss, loss_reg, acting_best_weight,
                   acting_best_epoch, files, clock, store_log, disk_log, error>>

(***************************************************************************)
(* The test run (src/test.py), a new process started on the directory a    *)
(* finished training run has left: nothing of the training process but the *)
(* files and the persisted options survives.                               *)
(***************************************************************************)
test_splits == <<"val", "test">>
test_dataloaders == [s \in {"train", "val", "test"} |-> Dataloader(TestBatches)]

\* test.py:15-28  _collect_weight: the weight files sorted by modification time
RECURSIVE SortByMtime(_)
SortByMtime(fs) ==
    IF fs = {} THEN <<>>
    ELSE LET first == CHOOSE f \in fs : \A g \in fs : f.mtime <= g.mtime
         IN  <<first>> \o SortByMtime(fs \ {first})

\* test.py:32  create_model(opt.args) of a test run, on a machine of its own
TestCreateModel ==
    /\ pc = "done"
    /\ UNCHANGED <<batchVars, netVars, createVars, instVars, curveVars>>
    /\ pc' = "collect_weight"
    /\ cuda' = None
    /\ UNCHANGED opt
    /\ network' = NetworkInit
    /\ epoch' = 0
    /\ phase' = "train"
    /\ i' = 1
    /\ loss' = None
    /\ loss_reg' = LossRegInit
    /\ acting_best_weight' = None
    /\ acting_best_epoch' = None
    /\ store_log' = <<>>
    /\ disk_log' = <<>>
    /\ UNCHANGED <<files, clock, error, testVars>>

\* test.py:36  weight_paths = _collect_weight(model.weight_dir)
CollectWeight ==
    /\ pc = "collect_weight"
    /\ UNCHANGED <<batchVars, netVars, createVars, instVars, curveVars>>
    /\ IF files = {}
       THEN /\ Raise("AssertionError: No weight in weight_dir.")
            /\ UNCHANGED weight_paths
       ELSE /\ weight_paths' = SortByMtime(files)
            /\ pc' = "load_weight"
            /\ UNCHANGED error
    /\ w' = 1
    /\ UNCHANGED <<opt, cuda, i, network, files, clock, trainVars, split, likelihood, likelihood_files>>

\* framework.py:530-542  SaveLoadMixin.load_weight: the network it leaves, or the error
load_weight(net, weight_path, available) ==
    LET weight == torch_load(weight_path.content)
    IN  IF ~load_state_dict_ok(net, weight)
        THEN [network |-> net, error |-> Some("RuntimeError: Error(s) in loading state_dict")]
        ELSE LET loaded == [net EXCEPT !.weights = weight[1].tensors]
             IN  IF ~gpu_requested
                 THEN [network |-> loaded, error |-> None]
                 ELSE IF ~available
                 THEN [network |-> loaded, error |-> Some("AssertionError: No avalibale GPU on this machine.")]
                 ELSE [network |-> enable_on_gpu(loaded), error |-> None]

\* test.py:37-41  for weight_path in weight_paths: model.load_weight(weight_path)
LoadWeight ==
    /\ pc = "load_weight"
    /\ UNCHANGED <<batchVars, netVars, createVars, instVars, curveVars>>
    /\ \E available \in (IF cuda = None THEN BOOLEAN ELSE {cuda[Len(cuda)]}) :
          LET r == load_weight(network, weight_paths[w], available)
              asked == gpu_requested /\ load_state_dict_ok(network, torch_load(weight_paths[w].content))
          IN  /\ network' = r.network
              /\ error' = r.error
              /\ pc' = IF r.error = None THEN "eval" ELSE "error"
              /\ cuda' = IF asked THEN Append(cuda, available) ELSE cuda
    /\ UNCHANGED <<opt, i, files, clock, trainVars, testVars>>

\* test.py:42-47  model.eval(), then the first batch of the first split
Eval ==
    /\ pc = "eval"
    /\ UNCHANGED <<batchVars, netVars, createVars, instVars, curveVars>>
    /\ network' = [network EXCEPT !.training = FALSE]
    /\ split' = 1
    /\ i' = 1
    /\ pc' = "test_set_data"
    /\ UNCHANGED <<opt, cuda, files, clock, error, trainVars, weight_paths, w, likelihood, likelihood_files>>

\* test.py:48  model.set_data(data)
TestSetData ==
    /\ pc = "test_set_data"
    /\ UNCHANGED <<batchVars, netVars, createVars, instVars, curveVars>>
    /\ pc' = "test_forward"
    /\ UNCHANGED <<opt, cuda, i, network, files, clock, error, trainVars, testVars>>

\* test.py:51  model.forward()
TestForward ==
    /\ pc = "test_forward"
    /\ UNCHANGED <<batchVars, netVars, createVars, instVars, curveVars>>
    /\ pc' = "make_likelihood"
    /\ UNCHANGED <<opt, cuda, i, network, files, clock, error, trainVars, testVars>>

\* A driver that leaves the pass over a weight file after the first split.
MakeLikelihood_OneSplit ==
    /\ pc = "make_likelihood"
    /\ UNCHANGED <<batchVars, netVars, createVars, instVars, curveVars>>
    /\ likelihood' = Append(likelihood,
            [weight |-> weight_paths[w].name, split |-> test_splits[split], batch |-> i,
             output |-> network.weights])
    /\ IF i + 1 <= Len(test_dataloaders[test_splits[split]])
       THEN /\ i' = i + 1
            /\ pc' = "test_set_data"
       ELSE /\ i' = 1
            /\ pc' = "save_likelihood"
    /\ split' = split
    /\ UNCHANGED <<opt, cuda, network, files, clock, error, trainVars, weight_paths, w, likelihood_files>>

\* test.py:52  model.make_likelihood(data): the rows of the batch are appended
MakeLikelihood ==
    /\ pc = "make_likelihood"
    /\ UNCHANGED <<batchVars, netVars, createVars, instVars, curveVars>>
    /\ likelihood' = Append(likelihood,
            [weight |-> weight_paths[w].name, split |-> test_splits[split], batch |-> i,
             output |-> network.weights])
    /\ IF i + 1 <= Len(test_dataloaders[test_splits[split]])
       THEN /\ i' = i + 1
            /\ split' = split
            /\ pc' = "test_set_data"
       ELSE /\ i' = 1
            /\ IF split + 1 <= Len(test_splits)
               THEN /\ split' = split + 1
                    /\ pc' = "test_set_data"
               ELSE /\ split' = split
                    /\ pc' = "save_likelihood"
    /\ UNCHANGED <<opt, cuda, network, files, clock, error, trainVars, weight_paths, w, likelihood_files>>

\* A save_likelihood that writes the rows and keeps them.
SaveLikelihood_NoClear ==
    /\ pc = "save_likelihood"
    /\ UNCHANGED <<batchVars, netVars, createVars, instVars, curveVars>>
    /\ likelihood_files' = likelihood_files \cup {[name |-> weight_paths[w].name, rows |-> likelihood]}
    /\ IF w + 1 <= Len(weight_paths)
       THEN /\ w' = w + 1
            /\ pc' = "load_weight"
       ELSE /\ w' = w
            /\ pc' = "test_done"
    /\ UNCHANGED <<opt, cuda, i, network, files, clock, error, trainVars, weight_paths, split,
                   likelihood>>

\* test.py:54  model.save_likelihood(weight_path.stem): the rows are written and cleared
SaveLikelihood ==
    /\ pc = "save_likelihood"
    /\ UNCHANGED <<batchVars, netVars, createVars, instVars, curveVars>>
    /\ likelihood_files' = likelihood_files \cup {[name |-> weight_paths[w].name, rows |-> likelihood]}
    /\ likelihood' = <<>>
    /\ IF w + 1 <= Len(weight_paths)
       THEN /\ w' = w + 1
            /\ pc' = "load_weight"
       ELSE /\ w' = w
            /\ pc' = "test_done"
    /\ UNCHANGED <<opt, cuda, i, network, files, clock, error, trainVars, weight_paths, split>>

Next ==
    \/ CreateModel
    \/ EpochLoop
    \/ PhaseStart
    \/ SetData
    \/ Forward
    \/ CalBatchLoss
    \/ Backward
    \/ OptimizeParameters
    \/ CalRunningLoss
    \/ CalEpochLoss
    \/ CheckUpdated
    \/ StoreWeight
    \/ SaveWeightEach
    \/ SaveLearningCurve
    \/ SaveWeightAsBest
    \/ SaveParameter
    \/ TestCreateModel
    \/ CollectWeight
    \/ LoadWeight
    \/ Eval
    \/ TestSetData
    \/ TestForward
    \/ MakeLikelihood
    \/ SaveLikelihood

Spec == Init /\ [][Next]_vars


(***************************************************************************)
(* create_model for a test run (framework.py:818-879): the construction of *)
(* TestModelParam from the caller's options and the persisted training     *)
(* configuration, then the dispatch to one of the six model classes.       *)
(*                                                                         *)
(* Attributes and dictionaries are functions from names to values; a name  *)
(* outside the domain is an attribute that is not set.                     *)
(***************************************************************************)
Get(d, k) == IF k \in DOMAIN d THEN d[k] ELSE None
SetAttr(d, k, v) == [x \in DOMAIN d \cup {k} |-> IF x = k THEN v ELSE d[x]]
Update(d, e) == [x \in DOMAIN d \cup DOMAIN e |-> IF x \in DOMAIN e THEN e[x] ELSE d[x]]
Restrict(d, keys) == [x \in DOMAIN d \cap keys |-> d[x]]

\* json.dump / json.load of the saved dictionary: None is written as null.
ToJson(v) == IF v = None THEN [null |-> TRUE] ELSE [value |-> v[1]]
FromJson(j) == IF "null" \in DOMAIN j THEN None ELSE Some(j.value)
JsonDump(d) == [k \in DOMAIN d |-> ToJson(d[k])]
JsonLoad(text) == [k \in DOMAIN text |-> FromJson(text[k])]

Tasks == {"classification", "regression", "deepsurv"}
Modalities == {"tabular", "image", "fusion"}
AllSplits == {"train", "val", "test"}

\* The data source of the training run: its label columns and their distinct values.
DfLabels(task) == IF task = "deepsurv" THEN <<"label_A">> ELSE label_list
DfNunique == [label_A |-> 2, label_B |-> 3]

RECURSIVE SeqToSet(_)
SeqToSet(q) == IF q = <<>> THEN {} ELSE {Head(q)} \cup SeqToSet(Tail(q))

\* framework.py:187-208  TrainModelParam._define_num_outputs_for_label
define_num_outputs_for_label(task, labels) ==
    IF task = "classification"
    THEN Some([l \in SeqToSet(labels) |-> DfNunique[l]])
    ELSE IF task = "regression" \/ task = "deepsurv"
    THEN Some([l \in SeqToSet(labels) |-> 1])
    ELSE None

\* The options of a training run for a task and a modality.
TrainArgs(task, modality) ==
    [task |-> Some(task),
     model |-> IF modality = "tabular" THEN Some("MLP")
               ELSE IF modality = "image" THEN Some("ResNet18")
               ELSE IF modality = "fusion" THEN Some("MLP+ViTb16") ELSE None,
     mlp |-> IF modality \in {"tabular", "fusion"} THEN Some("MLP") ELSE None,
     net |-> IF modality = "image" THEN Some("ResNet18")
             ELSE IF modality = "fusion" THEN Some("ViTb16") ELSE None,
     normalize_image |-> Some("yes"),
     in_channel |-> Some(1),
     vit_image_size |-> IF modality = "fusion" THEN Some(224) ELSE None,
     gpu_ids |-> Some(<<>>),
     augmentation |-> Some("randaug"),
     sampler |-> Some("yes"),
     pretrained |-> Some(TRUE),
     csvpath |-> Some("dataset/docs/trial.csv"),
     datetime |-> Some("2022-01-01-00-00-00"),
     isTrain |-> Some(TRUE)]

\* framework.py:162-185  TrainModelParam.__init__
TrainModelParam(a) ==
    LET task == a.task[1]
        derived == [input_list |-> Some(<<"input_a">>),
                    label_list |-> Some(DfLabels(task)),
                    mlp_num_inputs |-> Some(1),
                    num_outputs_for_label |-> define_num_outputs_for_label(task, DfLabels(task)),
                    device |-> Some("cpu"),
                    save_datetime_dir |-> Some("dataset/results/trial/sets/2022-01-01-00-00-00"),
                    dataloaders |-> Some("dataloaders")]
        period == IF task = "deepsurv" THEN [period_name |-> Some("period_x")] ELSE <<>>
    IN  Update(Update(a, derived), period)

\* framework.py:117-123: 'isTrain' 'datetime' has no comma between the two
\* strings, which makes one entry of them.
no_save == {"dataloaders", "device", "isTraindatetime", "save_datetime_dir"}

\* framework.py:111-141  BaseModelParam.save_parameter: the dictionary written
save_parameter(tp) ==
    LET saved == Restrict(tp, DOMAIN tp \ no_save)
        has_scaler == tp.mlp # None
    IN  IF has_scaler
        THEN SetAttr(saved, "scaler_path", Some("dataset/results/trial/sets/2022-01-01-00-00-00/scaler.pkl"))
        ELSE saved

\* framework.py:233-248
required_for_test ==
    <<"task", "model", "normalize_image", "in_channel", "vit_image_size", "gpu_ids", "mlp",
      "net", "input_list", "label_list", "mlp_num_inputs", "num_outputs_for_label",
      "period_name", "scaler_path">>

\* A loading loop that leaves alone what the caller has already set.
RECURSIVE load_required_CallerFirst(_, _, _)
load_required_CallerFirst(attrs, loaded, names) ==
    IF names = <<>> THEN attrs
    ELSE load_required_CallerFirst(
            IF Head(names) \in DOMAIN attrs THEN attrs
            ELSE SetAttr(attrs, Head(names), Get(loaded, Head(names))),
            loaded, Tail(names))

\* A loading loop that skips the names the file does not hold.
RECURSIVE load_required_SkipMissing(_, _, _)
load_required_SkipMissing(attrs, loaded, names) ==
    IF names = <<>> THEN attrs
    ELSE load_required_SkipMissing(
            IF Head(names) \in DOMAIN loaded THEN SetAttr(attrs, Head(names), loaded[Head(names)])
            ELSE attrs,
            loaded, Tail(names))

\* framework.py:249-250  setattr(self, _param, parameters.get(_param))
RECURSIVE load_required(_, _, _)
load_required(attrs, loaded, names) ==
    IF names = <<>> THEN attrs
    ELSE load_required(SetAttr(attrs, Head(names), Get(loaded, Head(names))), loaded, Tail(names))

\* The options a test-time caller hands over: the plain ones, or with values
\* of its own for the fields of the architecture.
TestArgsPlain ==
    [csvpath |-> Some("external/docs/trial.csv"),
     weight_dir |-> Some("dataset/results/trial/sets/2022-01-01-00-00-00/weights"),
     isTrain |-> Some(FALSE)]

TestArgsOwn ==
    Update(TestArgsPlain,
        [task |-> Some("regression"),
         model |-> Some("B0"),
         mlp |-> None,
         net |-> Some("B0"),
         normalize_image |-> Some("no"),
         in_channel |-> Some(3),
         vit_image_size |-> Some(384),
         input_list |-> Some(<<"input_z">>),
         label_list |-> Some(<<"label_X">>),
         num_outputs_for_label |-> Some([label_X |-> 5]),
         augmentation |-> Some("trivialaugwide"),
         sampler |-> Some("yes"),
         pretrained |-> Some(TRUE)])

\* What a caller of a training run can ask for: a task outside the three the
\* framework knows, or a model that is neither an MLP nor a net.
ArgTasks == Tasks \cup {"segmentation"}
ArgModalities == Modalities \cup {"none"}

\* framework.py:841  if args.isTrain
isTrain == Get(args, "isTrain") = Some(TRUE)

CreateInit ==
    /\ InstIdle
    /\ error = None
    /\ opt = [epochs |-> 0, save_weight_policy |-> "best", gpu_ids |-> <<>>]
    /\ cuda = None
    /\ epoch = 0
    /\ phase = "train"
    /\ i = 1
    /\ network = NetworkInit
    /\ loss = None
    /\ loss_reg = LossRegInit
    /\ acting_best_weight = None
    /\ acting_best_epoch = None
    /\ files = {}
    /\ clock = 0
    /\ store_log = <<>>
    /\ disk_log = <<>>
    /\ weight_paths = <<>>
    /\ w = 1
    /\ split = 1
    /\ likelihood = <<>>
    /\ likelihood_files = {}
    /\ learning_curve = {}
    /\ curve_calls = 0
    /\ NetIdle
    /\ BatchIdle
    /\ params = <<>>
    /\ model = None
    /\ \/ \* create_model of a test run
          /\ pc = "TestModelParam"
          /\ args \in {TestArgsPlain, TestArgsOwn}
          /\ \E task \in Tasks, modality \in Modalities :
                train_params = TrainModelParam(TrainArgs(task, modality))
          \* parameters.json as save_parameter wrote it, or with one name missing
          /\ \E lost \in SUBSET SeqToSet(required_for_test) :
                /\ Cardinality(lost) <= 1
                /\ parameters = JsonDump(Restrict(save_parameter(train_params),
                                                  DOMAIN save_parameter(train_params) \ lost))
          /\ splits_in_df_source \in SUBSET AllSplits \ {{}}
          /\ test_splits_arg \in SUBSET AllSplits \ {{}}
       \/ \* create_model of a training run
          /\ pc = "TrainModelParam"
          /\ \E task \in ArgTasks, modality \in ArgModalities :
                args = TrainArgs(task, modality)
          /\ train_params = None
          /\ parameters = None
          /\ splits_in_df_source = {"train", "val"}
          /\ test_splits_arg = AllSplits

\* framework.py:841-843, 162-185  params = TrainModelParam(args); an unknown task
\* is rejected by _define_num_outputs_for_label (framework.py:206-207)
TrainModelParamInit ==
    /\ pc = "TrainModelParam"
    /\ isTrain
    /\ IF define_num_outputs_for_label(args.task[1], DfLabels(args.task[1])) = None
       THEN /\ Raise("ValueError: Invalid task")
            /\ UNCHANGED params
       ELSE /\ params' = TrainModelParam(args)
            /\ pc' = "dispatch"
            /\ UNCHANGED error
    /\ UNCHANGED <<runVars, instVars, args, train_params, parameters, splits_in_df_source,
                   test_splits_arg, model>>

\* framework.py:227, 28-37  BaseModelParam.__init__: every option becomes an attribute
BaseModelParamInit ==
    /\ pc = "TestModelParam"
    /\ params' = args
    /\ pc' = "load_parameter"
    /\ UNCHANGED <<error, runVars, instVars, args, train_params, parameters, splits_in_df_source,
                   test_splits_arg, model>>

\* framework.py:229-250  the persisted values are set over the attributes
LoadParameter ==
    /\ pc = "load_parameter"
    /\ params' = load_required(params, JsonLoad(parameters), required_for_test)
    /\ pc' = "disable"
    /\ UNCHANGED <<error, runVars, instVars, args, train_params, parameters, splits_in_df_source,
                   test_splits_arg, model>>

\* A construction that disables the training-only behaviours only where the
\* caller has not specified them.
DisableTrainOnly_KeepCaller ==
    /\ pc = "disable"
    /\ params' = Update([augmentation |-> Some("no"), sampler |-> Some("no"),
                         pretrained |-> Some(FALSE)], params)
    /\ pc' = "device"
    /\ UNCHANGED <<error, runVars, instVars, args, train_params, parameters, splits_in_df_source,
                   test_splits_arg, model>>

\* framework.py:252-258
DisableTrainOnly ==
    /\ pc = "disable"
    /\ params' = Update(params, [augmentation |-> Some("no"), sampler |-> Some("no"),
                                 pretrained |-> Some(FALSE)])
    /\ pc' = "device"
    /\ UNCHANGED <<error, runVars, instVars, args, train_params, parameters, splits_in_df_source,
                   test_splits_arg, model>>

\* framework.py:260-266  the device: gpu_ids[0] unless gpu_ids == []
SetDevice ==
    /\ pc = "device"
    /\ IF Get(params, "gpu_ids") = None
       THEN /\ Raise("TypeError: 'NoneType' object is not subscriptable")
            /\ UNCHANGED params
       ELSE /\ params' = SetAttr(params, "device",
                            IF params["gpu_ids"][1] # <<>> THEN Some("cuda") ELSE Some("cpu"))
            /\ pc' = "align_splits"
            /\ UNCHANGED error
    /\ UNCHANGED <<runVars, instVars, args, train_params, parameters, splits_in_df_source,
                   test_splits_arg, model>>

\* Python's set < set
ProperSubset(a, b) == a \subseteq b /\ a # b

\* An alignment in which the larger set of splits has priority.
align_splits_Larger(in_df_source, requested) ==
    IF ProperSubset(in_df_source, requested)
    THEN requested
    ELSE IF ProperSubset(requested, in_df_source)
    THEN in_df_source
    ELSE requested

\* An alignment that always takes the requested splits.
align_splits_Requested(in_df_source, requested) == requested

\* framework.py:268-281
align_splits(in_df_source, requested) ==
    IF ProperSubset(in_df_source, requested)
    THEN in_df_source
    ELSE IF ProperSubset(requested, in_df_source)
    THEN requested
    ELSE requested

\* framework.py:272-287  test_splits, and a dataloader for each of them
AlignSplits ==
    /\ pc = "align_splits"
    /\ LET aligned == align_splits(splits_in_df_source, test_splits_arg)
       IN  params' = Update(params, [test_splits |-> Some(aligned),
                                     dataloaders |-> Some([s \in aligned |-> "dataloader"]),
                                     likelihood_on |-> Some(TRUE)])
    /\ pc' = "dispatch"
    /\ UNCHANGED <<error, runVars, instVars, args, train_params, parameters, splits_in_df_source,
                   test_splits_arg, model>>

\* A dispatch that takes every configuration with an mlp for the tabular one.
create_model_class_MlpFirst(task, mlp, net) ==
    LET isMLPModel == mlp # None
        isCVModel == mlp = None /\ net # None
    IN  IF task = Some("classification") \/ task = Some("regression")
        THEN IF isMLPModel THEN [model |-> Some("MLPModel"), error |-> None]
             ELSE IF isCVModel THEN [model |-> Some("CVModel"), error |-> None]
             ELSE [model |-> None, error |-> Some("ValueError: Invalid model type")]
        ELSE IF task = Some("deepsurv")
        THEN IF isMLPModel THEN [model |-> Some("MLPDeepSurv"), error |-> None]
             ELSE IF isCVModel THEN [model |-> Some("CVDeepSurv"), error |-> None]
             ELSE [model |-> None, error |-> Some("ValueError: Invalid model type")]
        ELSE [model |-> None, error |-> Some("ValueError: Invalid task")]

\* A dispatch that falls back to the tabular model where the code raises.
create_model_class_Default(task, mlp, net) ==
    LET isCVModel == mlp = None /\ net # None
        isFusion == mlp # None /\ net # None
    IN  IF task = Some("deepsurv")
        THEN IF isCVModel THEN [model |-> Some("CVDeepSurv"), error |-> None]
             ELSE IF isFusion THEN [model |-> Some("FusionDeepSurv"), error |-> None]
             ELSE [model |-> Some("MLPDeepSurv"), error |-> None]
        ELSE IF isCVModel THEN [model |-> Some("CVModel"), error |-> None]
             ELSE IF isFusion THEN [model |-> Some("FusionModel"), error |-> None]
             ELSE [model |-> Some("MLPModel"), error |-> None]

\* framework.py:847-873  the model class for a task and the mlp and net of the configuration
create_model_class(task, mlp, net) ==
    LET isMLPModel == mlp # None /\ net = None
        isCVModel == mlp = None /\ net # None
        isFusion == mlp # None /\ net # None
    IN  IF task = Some("classification") \/ task = Some("regression")
        THEN IF isMLPModel THEN [model |-> Some("MLPModel"), error |-> None]
             ELSE IF isCVModel THEN [model |-> Some("CVModel"), error |-> None]
             ELSE IF isFusion THEN [model |-> Some("FusionModel"), error |-> None]
             ELSE [model |-> None, error |-> Some("ValueError: Invalid model type")]
        ELSE IF task = Some("deepsurv")
        THEN IF isMLPModel THEN [model |-> Some("MLPDeepSurv"), error |-> None]
             ELSE IF isCVModel THEN [model |-> Some("CVDeepSurv"), error |-> None]
             ELSE IF isFusion THEN [model |-> Some("FusionDeepSurv"), error |-> None]
             ELSE [model |-> None, error |-> Some("ValueError: Invalid model type")]
        ELSE [model |-> None, error |-> Some("ValueError: Invalid task")]

\* framework.py:847-879  create_model: the dispatch.  The training run of
\* this construction asks for no GPU, so that line 876 changes nothing.
Dispatch ==
    /\ pc = "dispatch"
    /\ LET r == create_model_class(Get(params, "task"), Get(params, "mlp"), Get(params, "net"))
       IN  /\ model' = r.model
           /\ error' = r.error
           /\ pc' = IF r.error = None THEN "created" ELSE "error"
    /\ UNCHANGED <<runVars, instVars, args, train_params, parameters, params, splits_in_df_source,
                   test_splits_arg>>

CreateNext ==
    \/ TrainModelParamInit
    \/ BaseModelParamInit
    \/ LoadParameter
    \/ DisableTrainOnly
    \/ SetDevice
    \/ AlignSplits
    \/ Dispatch

SpecCreate == CreateInit /\ [][CreateNext]_vars

(***************************************************************************)
(* Two model instances in one process, each at the end of its own epochs.  *)
(* acting_best_weight and acting_best_epoch are defined on the class       *)
(* SaveLoadMixin (framework.py:489-490); self.<name> = value creates an     *)
(* attribute of the instance, and reading self.<name> finds the attribute  *)
(* of the instance before that of the class.                               *)
(***************************************************************************)
Instances == {1, 2}

ModelInit ==
    [network |-> NetworkInit, loss_reg |-> LossRegInit, epoch |-> 0, at |-> "epoch_loop",
     attrs |-> <<>>, stored |-> 0]

\* self.<name>
getattr(m, name) ==
    IF name \in DOMAIN models[m].attrs THEN models[m].attrs[name] ELSE class_attrs[name]

InstancesInit ==
    /\ CreateIdle
    /\ pc = "instances"
    /\ error = None
    /\ opt = [epochs |-> MaxInstEpochs, save_weight_policy |-> "best", gpu_ids |-> <<>>]
    /\ cuda = None
    /\ epoch = 0
    /\ phase = "train"
    /\ i = 1
    /\ network = NetworkInit
    /\ loss = None
    /\ loss_reg = LossRegInit
    /\ acting_best_weight = None
    /\ acting_best_epoch = None
    /\ files = {}
    /\ clock = 0
    /\ store_log = <<>>
    /\ disk_log = <<>>
    /\ weight_paths = <<>>
    /\ w = 1
    /\ split = 1
    /\ likelihood = <<>>
    /\ likelihood_files = {}
    /\ learning_curve = {}
    /\ curve_calls = 0
    /\ NetIdle
    /\ BatchIdle
    /\ class_attrs = SaveLoadMixin
    /\ models = [m \in Instances |-> ModelInit]

\* train.py:19-49  one epoch of the run of instance m: the optimizer steps,
\* both phases are finalized, and the update of the validation total is asked
RunEpoch(m) ==
    /\ pc = "instances"
    /\ models[m].at = "epoch_loop"
    /\ models[m].epoch < opt.epochs
    /\ \E per_label \in BatchLosses :
          LET me == models[m]
              net == [me.network EXCEPT !.weights = @ + 1]
              tr == cal_epoch_loss_reg(
                        cal_running_loss_reg(cal_batch_loss_reg(me.loss_reg, per_label), 1),
                        me.epoch, "train", 1)
              va == cal_epoch_loss_reg(
                        cal_running_loss_reg(cal_batch_loss_reg(tr, per_label), 1),
                        me.epoch, "val", 1)
              updated == is_val_loss_updated(va.epoch_loss["total"])
          IN  models' = [models EXCEPT ![m] =
                  [me EXCEPT !.network = net,
                             !.loss_reg = va,
                             !.attrs = IF "acting_best_weight" \in DOMAIN me.attrs
                                       THEN [@ EXCEPT !["acting_best_weight"] = step_in_place(@, net)]
                                       ELSE @,
                             !.at = IF updated THEN "store_weight" ELSE "epoch_loop",
                             !.epoch = IF updated THEN @ ELSE @ + 1]]
    /\ UNCHANGED <<pc, error, runVars, createVars, class_attrs>>

\* A store_weight that assigns to the attributes of the class.
store_weight_on_ClassAttr(m) ==
    /\ pc = "instances"
    /\ models[m].at = "store_weight"
    /\ LET r == store_weight(models[m].network, models[m].loss_reg)
       IN  class_attrs' = [acting_best_weight |-> r.acting_best_weight,
                           acting_best_epoch |-> r.acting_best_epoch]
    /\ models' = [models EXCEPT ![m].at = "epoch_loop", ![m].epoch = @ + 1, ![m].stored = @ + 1]
    /\ UNCHANGED <<pc, error, runVars, createVars>>

\* train.py:50, framework.py:493-503  model.store_weight() on instance m:
\* self.acting_best_epoch = ..., self.acting_best_weight = ...
store_weight_on(m) ==
    /\ pc = "instances"
    /\ models[m].at = "store_weight"
    /\ LET r == store_weight(models[m].network, models[m].loss_reg)
       IN  models' = [models EXCEPT
               ![m].attrs = SetAttr(SetAttr(@, "acting_best_epoch", r.acting_best_epoch),
                                    "acting_best_weight", r.acting_best_weight),
               ![m].network = r.network,
               ![m].at = "epoch_loop",
               ![m].epoch = @ + 1,
               ![m].stored = @ + 1]
    /\ UNCHANGED <<pc, error, runVars, createVars, class_attrs>>

InstancesNext ==
    \/ \E m \in Instances : RunEpoch(m)
    \/ \E m \in Instances : store_weight_on(m)

SpecInstances == InstancesInit /\ [][InstancesNext]_vars

(***************************************************************************)
(* BaseNet (src/models/net.py): the catalog of backbones, the extractor    *)
(* and the classifier heads built for a backbone name.                     *)
(***************************************************************************)
cnn == {"ResNet18", "ResNet", "DenseNet", "B0", "B2", "B4", "B6",
        "ConvNeXtTiny", "ConvNeXtSmall", "ConvNeXtBase", "ConvNeXtLarge"}
vit == {"ViTb16", "ViTb32", "ViTl16", "ViTl32"}
net == cnn \cup vit

\* net.py:41-57  the attribute of each backbone that holds its classifier
classifier ==
    [n \in net |-> IF n \in {"ResNet18", "ResNet"} THEN "fc"
                   ELSE IF n \in vit THEN "heads" ELSE "classifier"]

\* net.py:59-62
mlp_config == [hidden_channels |-> <<256, 256, 256>>, dropout |-> "0.2"]

\* The names a caller can ask for: those of the catalog, 'MLP', and names
\* the catalog does not hold.
NetNames == net \cup {"MLP", "VGG16", "B3", "ResNet101", "DenseNet121", "ConvNeXtHuge", "ViTh14"}

\* str.startswith over the names above
startswith(name, prefix) ==
    name \in CASE prefix = "ResNet"   -> {"ResNet18", "ResNet", "ResNet101"}
              [] prefix = "DenseNet" -> {"DenseNet", "DenseNet121"}
              [] prefix = "B"        -> {"B0", "B2", "B3", "B4", "B6"}
              [] prefix = "ConvNeXt" -> {"ConvNeXtTiny", "ConvNeXtSmall", "ConvNeXtBase",
                                         "ConvNeXtLarge", "ConvNeXtHuge"}

\* A value of Python with its type: isinstance(v, int)
Int_(v) == Some([type |-> "int", value |-> v])
Str_(v) == Some([type |-> "str", value |-> v])
isinstance_int(v) == v # None /\ v[1].type = "int"

Returned(v) == [value |-> Some(v), error |-> None]
Raised(e) == [value |-> None, error |-> Some(e)]

\* net.py:64-67  MLPNet
MLPNet(num_inputs) ==
    [module |-> "MLP", in_channels |-> num_inputs[1].value,
     hidden_channels |-> mlp_config.hidden_channels, dropout |-> mlp_config.dropout]

\* net.py:78-96  set_vit is a classmethod that set_net calls as
\* cls.set_vit(cls, net_name, vit_image_size): the class is passed twice
set_vit_call == Raised("TypeError: set_vit() takes 3 positional arguments but 4 were given")

\* net.py:69-76  set_net
set_net(name, image_size) ==
    IF name \in cnn
    THEN Returned([module |-> name, classifier |-> classifier[name]])
    ELSE IF ~isinstance_int(image_size)
    THEN Raised("AssertionError: Invalid image size for ViT")
    ELSE set_vit_call

\* An extractor that takes ResNet18 for a name the catalog does not hold.
constuct_extractor_Fallback(name, num_inputs, image_size) ==
    IF name = "MLP"
    THEN IF ~isinstance_int(num_inputs)
         THEN Raised("AssertionError: Invalid number of inputs for MLP")
         ELSE Returned(MLPNet(num_inputs))
    ELSE LET r == set_net(IF name \in net THEN name ELSE "ResNet18", image_size)
         IN  IF r.error # None THEN r
             ELSE Returned([r.value[1] EXCEPT !.classifier = "Identity"])

\* net.py:98-108  constuct_extractor
constuct_extractor(name, num_inputs, image_size) ==
    IF name = "MLP"
    THEN IF ~isinstance_int(num_inputs)
         THEN Raised("AssertionError: Invalid number of inputs for MLP")
         ELSE Returned(MLPNet(num_inputs))
    ELSE IF name \notin net
    THEN Raised("AssertionError: No specified net")
    ELSE LET r == set_net(name, image_size)
         IN  IF r.error # None THEN r
             ELSE Returned([r.value[1] EXCEPT !.classifier = "Identity"])

\* net.py:110-114  get_classifier: cls.net[net_name] raises KeyError for a
\* name outside the catalog; in_features is what torchvision gives the backbone
get_classifier(name) ==
    IF name \notin net
    THEN Raised("KeyError")
    ELSE Returned([of |-> name, attribute |-> classifier[name],
                   in_features |-> [in_features_of |-> name]])

\* The layers of a head: a module the loop over the labels constructs anew
\* for each label, or a module taken from the classifier of the backbone
\* before the loop (base_classifier[index]).
Built(kind) == [kind |-> kind, taken |-> FALSE, index |-> 0]
Taken(kind, index) == [kind |-> kind, taken |-> TRUE, index |-> index]

\* The module objects of the head of a label: a constructor call in the loop
\* body yields an object of that label, a module bound before the loop is the
\* same object in the head of every label.
modules_of(layers, internal_label_name) ==
    [k \in 1..Len(layers) |->
        IF layers[k].taken
        THEN [kind |-> layers[k].kind, owner |-> "base_classifier", at |-> layers[k].index]
        ELSE [kind |-> layers[k].kind, owner |-> internal_label_name, at |-> k - 1]]

\* Heads that all have the size of the largest label.
heads_Widest(layers, in_features, num_classes) ==
    LET widest == CHOOSE c \in {num_classes[l] : l \in DOMAIN num_classes} :
                      \A l \in DOMAIN num_classes : num_classes[l] <= c
    IN  [internal_label_name \in DOMAIN num_classes |->
            [layers |-> layers, modules |-> modules_of(layers, internal_label_name),
             in_features |-> in_features, out_features |-> widest]]

\* for internal_label_name, num_classes in num_classes_in_internal_label.items():
\*     classifiers[internal_label_name] = ... nn.Linear(in_features, num_classes)
heads(layers, in_features, num_classes) ==
    [internal_label_name \in DOMAIN num_classes |->
        [layers |-> layers, modules |-> modules_of(layers, internal_label_name),
         in_features |-> in_features, out_features |-> num_classes[internal_label_name]]]

\* net.py:116-165  construct_multi_classifier
construct_multi_classifier(name, num_classes) ==
    IF name = "MLP"
    THEN Returned(heads(<<Built("Linear")>>,
                        mlp_config.hidden_channels[Len(mlp_config.hidden_channels)], num_classes))
    ELSE LET base_classifier == get_classifier(name)
         IN  IF base_classifier.error # None THEN base_classifier
             ELSE LET in_features == base_classifier.value[1].in_features
                  IN  IF startswith(name, "ResNet") \/ startswith(name, "DenseNet")
                      THEN Returned(heads(<<Built("Linear")>>, in_features, num_classes))
                      ELSE IF startswith(name, "B")
                      THEN Returned(heads(<<Built("Dropout"), Built("Linear")>>, in_features,
                                          num_classes))
                      ELSE IF startswith(name, "ConvNeXt")
                      THEN Returned(heads(<<Taken("LayerNorm2d", 0), Taken("Flatten", 1),
                                            Built("Linear")>>, in_features, num_classes))
                      ELSE Returned(heads(<<Built("Linear")>>, in_features, num_classes))

\* The maps from label names to numbers of classes: any labels of label_list,
\* each with 1 (regression, deepsurv), 2 or 3 classes.
NumClassesMaps == UNION {[ls -> 1..3] : ls \in SUBSET LabelSet}

NetInit ==
    /\ CreateIdle
    /\ InstIdle
    /\ pc = "net"
    /\ error = None
    /\ opt = [epochs |-> 0, save_weight_policy |-> "best", gpu_ids |-> <<>>]
    /\ cuda = None
    /\ epoch = 0
    /\ phase = "train"
    /\ i = 1
    /\ network = NetworkInit
    /\ loss = None
    /\ loss_reg = LossRegInit
    /\ acting_best_weight = None
    /\ acting_best_epoch = None
    /\ files = {}
    /\ clock = 0
    /\ store_log = <<>>
    /\ disk_log = <<>>
    /\ weight_paths = <<>>
    /\ w = 1
    /\ split = 1
    /\ likelihood = <<>>
    /\ likelihood_files = {}
    /\ learning_curve = {}
    /\ curve_calls = 0
    /\ BatchIdle
    /\ net_name \in NetNames
    /\ num_classes_in_internal_label \in NumClassesMaps
    \* no resolution, 224, 384, and the string '224'
    /\ vit_image_size \in {None, Int_(224), Int_(384), Str_(224)}
    /\ mlp_num_inputs \in {None, Int_(1)}
    /\ extractor = None
    /\ multi_classifier = None
    /\ head_parameters = <<>>

\* BaseNet.constuct_extractor(net_name, mlp_num_inputs, vit_image_size)
ConstructExtractor ==
    /\ pc = "net"
    /\ extractor = None
    /\ extractor' = Some(constuct_extractor(net_name, mlp_num_inputs, vit_image_size))
    /\ UNCHANGED <<pc, error, opt, cuda, i, network, files, clock, trainVars, testVars, curveVars,
                   batchVars,
                   net_name, num_classes_in_internal_label, vit_image_size, mlp_num_inputs,
                   multi_classifier, head_parameters, createVars, instVars>>

\* The kinds of module that hold parameters: the weight and bias of a linear
\* layer and of a layer normalisation.
has_parameters(module) == module.kind \in {"Linear", "LayerNorm2d"}
SeqRange(sq) == {sq[k] : k \in 1..Len(sq)}

\* head.parameters(): the modules of a head that hold parameters
parameters_of(head) == {module \in SeqRange(head.modules) : has_parameters(module)}

\* multi_classifier.parameters() as construction leaves them
initial_parameters(returned) ==
    IF returned.error # None THEN <<>>
    ELSE LET classifiers == returned.value[1]
         IN  [module \in UNION {parameters_of(classifiers[l]) : l \in DOMAIN classifiers} |-> 0]

\* BaseNet.construct_multi_classifier(net_name, num_classes_in_internal_label)
ConstructMultiClassifier ==
    /\ pc = "net"
    /\ multi_classifier = None
    /\ multi_classifier' = Some(construct_multi_classifier(net_name, num_classes_in_internal_label))
    /\ head_parameters' = initial_parameters(multi_classifier'[1])
    /\ UNCHANGED <<pc, error, opt, cuda, i, network, files, clock, trainVars, testVars, curveVars,
                   batchVars,
                   net_name, num_classes_in_internal_label, vit_image_size, mlp_num_inputs,
                   extractor, createVars, instVars>>

\* An optimizer step on the parameters of the head of one label: every
\* parameter the head holds is updated in place.
OptimizeHead(internal_label_name) ==
    /\ pc = "net"
    /\ multi_classifier # None
    /\ multi_classifier[1].error = None
    /\ internal_label_name \in DOMAIN multi_classifier[1].value[1]
    /\ LET stepped == parameters_of(multi_classifier[1].value[1][internal_label_name])
       IN  /\ \A module \in stepped :
                  module.owner = internal_label_name => head_parameters[module] < MaxHeadSteps
           /\ head_parameters' =
                  [module \in DOMAIN head_parameters |->
                      IF module \in stepped THEN head_parameters[module] + 1
                      ELSE head_parameters[module]]
    /\ UNCHANGED <<pc, error, opt, cuda, i, network, files, clock, trainVars, testVars, curveVars,
                   batchVars,
                   net_name, num_classes_in_internal_label, vit_image_size, mlp_num_inputs,
                   extractor, multi_classifier, createVars, instVars>>

NetNext ==
    \/ ConstructExtractor
    \/ ConstructMultiClassifier
    \/ \E internal_label_name \in LabelSet : OptimizeHead(internal_label_name)

SpecNet == NetInit /\ [][NetNext]_vars

(***************************************************************************)
(* One batch through a model variant: set_data, forward, cal_batch_loss of *)
(* the six classes of framework.py.  A tensor is known by its name, the    *)
(* device it resides on and its dtype.                                     *)
(***************************************************************************)
Tensor(name, dev, dtype) == [name |-> name, device |-> dev, dtype |-> dtype]
to(t, dev) == [t EXCEPT !.device = dev]
float(t) == [t EXCEPT !.dtype = "float32"]

ModelClasses == {"MLPModel", "CVModel", "FusionModel", "MLPDeepSurv", "CVDeepSurv", "FusionDeepSurv"}
DeepSurvClasses == {"MLPDeepSurv", "CVDeepSurv", "FusionDeepSurv"}

\* The label maps of a batch: one tensor per label, or no label at all.
LabelMaps == {<<>>, [l \in LabelSet |-> Tensor(l, "cpu", "int64")]}

\* The batch the dataloader yields: tensors in host memory.
BatchData(labels) ==
    [inputs  |-> Tensor("inputs", "cpu", "float32"),
     image   |-> Tensor("image", "cpu", "float32"),
     labels  |-> labels,
     periods |-> Tensor("periods", "cpu", "int64")]

\* self.device: cuda:<gpu_ids[0]> unless gpu_ids == []
device == IF gpu_requested THEN "cuda" ELSE "cpu"

\* The attributes a model has before its first batch.
NoAttrs ==
    [inputs |-> None, image |-> None, input |-> None, multi_label |-> None, periods |-> None,
     multi_output |-> None]

\* set_data of each class: unpack the batch into attributes.
set_data(cls, attrs, d) ==
    LET with_inputs  == IF cls \in {"MLPModel", "FusionModel", "MLPDeepSurv", "FusionDeepSurv"}
                        THEN [attrs EXCEPT !.inputs = Some(d.inputs)] ELSE attrs
        with_image   == IF cls \in {"CVModel", "FusionModel", "CVDeepSurv", "FusionDeepSurv"}
                        THEN [with_inputs EXCEPT !.image = Some(d.image)] ELSE with_inputs
        with_labels  == [with_image EXCEPT !.multi_label = Some(d.labels)]
    IN  IF cls \in DeepSurvClasses
        THEN [with_labels EXCEPT !.periods = Some(d.periods)]
        ELSE with_labels

\* forward of each class: the attributes it leaves and the tensors it passes
\* to self.network.
forward(cls, attrs, dev) ==
    LET out == Some(Tensor("multi_output", dev, "float32"))
    IN  CASE cls = "MLPModel" ->
               [attrs |-> [attrs EXCEPT !.input = Some(to(attrs.inputs[1], dev)), !.multi_output = out],
                args  |-> <<attrs.inputs[1]>>]
          [] cls \in {"CVModel", "CVDeepSurv"} ->
               LET a == [attrs EXCEPT !.image = Some(to(attrs.image[1], dev)), !.multi_output = out]
               IN  [attrs |-> a, args |-> <<a.image[1]>>]
          [] cls \in {"FusionModel", "FusionDeepSurv"} ->
               LET a == [attrs EXCEPT !.inputs = Some(to(attrs.inputs[1], dev)),
                                      !.image = Some(to(attrs.image[1], dev)),
                                      !.multi_output = out]
               IN  [attrs |-> a, args |-> <<a.inputs[1], a.image[1]>>]
          [] cls = "MLPDeepSurv" ->
               LET a == [attrs EXCEPT !.inputs = Some(to(attrs.inputs[1], dev)), !.multi_output = out]
               IN  [attrs |-> a, args |-> <<a.inputs[1]>>]

\* any(multi_label): a dictionary with at least one (non-empty) label name.
any(multi_label) == DOMAIN multi_label # {}

\* A multi_label_to_device that accepts the empty label map.
multi_label_to_device_NoAssert(multi_label, dev) ==
    Returned([l \in DOMAIN multi_label |-> to(multi_label[l], dev)])

\* framework.py:385-399  BaseModel.multi_label_to_device
multi_label_to_device(multi_label, dev) ==
    IF ~any(multi_label)
    THEN Raised("AssertionError: multi-label is empty.")
    ELSE Returned([l \in DOMAIN multi_label |-> to(multi_label[l], dev)])

\* The model of a variant stands before its first batch.
BatchInit ==
    /\ InstIdle
    /\ NetIdle
    /\ pc = "batch:set_data"
    /\ opt \in [epochs : {1}, save_weight_policy : {"best"}, gpu_ids : {<<>>, <<0>>}]
    /\ model \in {Some(cls) : cls \in ModelClasses}
    /\ data \in {Some(BatchData(labels)) : labels \in LabelMaps}
    /\ self_attrs = NoAttrs
    /\ network_args = None
    /\ phase \in {"train", "val"}
    /\ network = IF opt.gpu_ids # <<>> THEN enable_on_gpu(NetworkInit) ELSE NetworkInit
    /\ cuda = IF opt.gpu_ids # <<>> THEN Some(TRUE) ELSE None
    /\ args = None
    /\ train_params = None
    /\ parameters = None
    /\ params = None
    /\ splits_in_df_source = {}
    /\ test_splits_arg = {}
    /\ epoch = 0
    /\ i = 1
    /\ loss = None
    /\ loss_reg = LossRegInit
    /\ acting_best_weight = None
    /\ acting_best_epoch = None
    /\ files = {}
    /\ clock = 0
    /\ store_log = <<>>
    /\ disk_log = <<>>
    /\ error = None
    /\ weight_paths = <<>>
    /\ w = 1
    /\ split = 1
    /\ likelihood = <<>>
    /\ likelihood_files = {}
    /\ learning_curve = {}
    /\ curve_calls = 0

\* train.py:33, test.py:48  model.set_data(data)
ModelSetData ==
    /\ pc = "batch:set_data"
    /\ self_attrs' = set_data(model[1], self_attrs, data[1])
    /\ pc' = "batch:forward"
    /\ UNCHANGED <<error, opt, cuda, i, network, files, clock, trainVars, testVars, curveVars,
                   netVars, data, network_args, createVars, instVars>>

\* train.py:36, test.py:51  model.forward()
ModelForward ==
    /\ pc = "batch:forward"
    /\ LET done == forward(model[1], self_attrs, device)
       IN  /\ self_attrs' = done.attrs
           /\ network_args' = Some(done.args)
    /\ pc' = "batch:cal_batch_loss"
    /\ UNCHANGED <<error, opt, cuda, i, network, files, clock, trainVars, testVars, curveVars,
                   netVars, data, createVars, instVars>>

\* train.py:37  model.cal_batch_loss() of each class
ModelCalBatchLoss ==
    /\ pc = "batch:cal_batch_loss"
    /\ LET moved == multi_label_to_device(self_attrs.multi_label[1], device)
       IN  IF moved.error # None
           THEN /\ Raise(moved.error[1])
                /\ UNCHANGED <<self_attrs, loss_reg>>
           ELSE /\ self_attrs' =
                      IF model[1] \in DeepSurvClasses
                      THEN [self_attrs EXCEPT !.multi_label = moved.value,
                                              !.periods = Some(to(float(@[1]), device))]
                      ELSE [self_attrs EXCEPT !.multi_label = moved.value]
                /\ \E per_label \in BatchLosses :
                      loss_reg' = cal_batch_loss_reg(loss_reg, per_label)
                /\ pc' = "batch:done"
                /\ UNCHANGED error
    /\ UNCHANGED <<opt, cuda, i, network, files, clock, testVars, curveVars, netVars, data,
                   network_args, createVars, instVars>>
    /\ UNCHANGED <<epoch, phase, loss, acting_best_weight, acting_best_epoch, store_log, disk_log>>

BatchNext ==
    \/ ModelSetData
    \/ ModelForward
    \/ ModelCalBatchLoss

SpecBatch == BatchInit /\ [][BatchNext]_vars

(***************************************************************************)
(* Properties of the training run.                                         *)
(***************************************************************************)
TrainEnd == {"save_learning_curve", "save_weight_as_best", "save_parameter", "done"}

\* The driver stands between two epochs, or behind the last one: `epoch`
\* epochs are completed.
AtEpochBoundary == pc = "epoch_loop" \/ pc \in TrainEnd

History(key, ph) == loss_reg.epoch_loss[key][ph]
ValTotals == History("total", "val")

\* 1-based position of the first minimum of a non-empty history.
FirstMinIndex(h) ==
    CHOOSE k \in 1..Len(h) :
        /\ \A j \in 1..Len(h) : ~FracLess(h[j], h[k])
        /\ \A j \in 1..(k - 1) : FracLess(h[k], h[j])

\* The validation total of epoch e (0-based) is strictly below that of every earlier epoch.
StrictlyImproves(h, e) == \A j \in 1..e : FracLess(h[e + 1], h[j])

Count(s, x) == Cardinality({k \in 1..Len(s) : s[k] = x})

\* C1: after every completed epoch the recorded best epoch is the smallest
\* epoch index whose validation total equals the minimum of the validation
\* total history so far; an equal loss never replaces the earlier epoch.
C1_BestEpochIsFirstMinimum ==
    (AtEpochBoundary /\ epoch >= 1) =>
        /\ Len(ValTotals) = epoch
        /\ acting_best_epoch = Some(FirstMinIndex(ValTotals) - 1)
        /\ get_best_epoch(loss_reg.epoch_loss["total"]) = acting_best_epoch

\* Validation totals 2, 1, 1 over epochs 0..2: the tie at epoch 2 keeps epoch 1.
C1_Witness ==
    /\ pc = "epoch_loop"
    /\ epoch = 3
    /\ Len(ValTotals) = 3
    /\ FracEq(ValTotals[1], Frac(2, 1))
    /\ FracEq(ValTotals[2], Frac(1, 1))
    /\ FracEq(ValTotals[3], Frac(1, 1))
    /\ acting_best_epoch = Some(1)

\* C2: store_weight is invoked at the end of epoch e iff the validation total
\* of e is strictly below that of every earlier epoch (or e is the first
\* epoch), at most once per epoch, and the store itself writes no file.
C2_StoreInvariant ==
    pc \notin {"error", "collect_weight", "load_weight", "eval", "test_set_data",
               "test_forward", "make_likelihood", "save_likelihood", "test_done"} =>
        /\ \A e \in 0..(epoch - 1) :
              Count(store_log, e) = IF StrictlyImproves(ValTotals, e) THEN 1 ELSE 0
        /\ Count(store_log, epoch) <= 1
        /\ \A k \in 1..Len(store_log) : store_log[k] <= epoch

C2_StoreIffStrictImprovement ==
    /\ []C2_StoreInvariant
    /\ [][pc = "store_weight" => (files' = files /\ clock' = clock /\ disk_log' = disk_log)]_vars

\* Epoch 1 improved and was stored, epoch 2 tied and was not.
C2_Witness ==
    /\ pc = "epoch_loop"
    /\ epoch = 3
    /\ store_log = <<0, 1>>
    /\ FracEq(ValTotals[2], ValTotals[3])

\* C3: in both phases the recorded total loss of every epoch is the sum over
\* the labels of the recorded per-label losses of that epoch, and the scalar
\* backward starts from is the total of the batch.
C3_TotalIsSumOfLabels ==
    /\ \A ph \in {"train", "val"} :
          /\ \A k \in LabelSet : Len(History(k, ph)) = Len(History("total", ph))
          /\ \A e \in 1..Len(History("total", ph)) :
                FracEq(History("total", ph)[e],
                       FracSumSeq([k \in LabelSet |-> History(k, ph)[e]], label_list))
    /\ pc = "optimize_parameters" =>
          /\ loss = Some(loss_reg.batch_loss["total"])
          /\ loss = Some(SumSeq(loss_reg.batch_loss, label_list))

\* Two train batches gave label_A the epoch loss 2/2 and label_B 1/2; the
\* next epoch's backward starts from a batch total of 2.
C3_Witness ==
    /\ pc = "optimize_parameters"
    /\ epoch = 1
    /\ loss = Some(2)
    /\ History("label_A", "train")[1] = Frac(2, 2)
    /\ History("label_B", "train")[1] = Frac(1, 2)
    /\ History("total", "train")[1] = Frac(3, 2)
    /\ History("total", "val")[1] = Frac(1, 1)

\* C4: at every epoch boundary, for every label and for 'total', the train
\* history and the val history have the length of the number of epochs
\* completed (entry e + 1 of the sequence is epoch e).
C4_HistoriesAligned ==
    AtEpochBoundary =>
        \A k \in LossKeys :
            /\ Len(History(k, "train")) = epoch
            /\ Len(History(k, "val")) = epoch
            /\ DOMAIN History(k, "train") = 1..epoch
            /\ DOMAIN History(k, "val") = 1..epoch

C4_Witness ==
    /\ pc = "epoch_loop"
    /\ epoch = 2
    /\ \A k \in LossKeys : Len(History(k, "train")) = 2 /\ Len(History(k, "val")) = 2

\* The weight files on disk that are named by epoch ep.
FilesOfEpoch(ep) == {f \in files : f.name.epoch = ep}
SavedNotAsBest(ep) ==
    \E k \in 1..Len(disk_log) : disk_log[k].op = "save" /\ disk_log[k].name = WeightName(ep, FALSE)
SavesOfEpoch(ep) == {k \in 1..Len(disk_log) : disk_log[k].op = "save" /\ disk_log[k].name.epoch = ep}

\* C5: save_weight(as_best=True) after a save_weight(as_best=False) for the
\* same best epoch leaves exactly one weight file of that epoch: the earlier
\* file renamed to the best-suffixed name, and no second copy written.
C5_RenamedNotDuplicated ==
    (pc \in {"save_parameter", "done"} /\ SavedNotAsBest(acting_best_epoch)) =>
        /\ Cardinality(FilesOfEpoch(acting_best_epoch)) = 1
        /\ \A f \in FilesOfEpoch(acting_best_epoch) :
              /\ f.name = WeightName(acting_best_epoch, TRUE)
              /\ f.content = torch_save(acting_best_weight)
        /\ Cardinality(SavesOfEpoch(acting_best_epoch)) = 1
        /\ disk_log[Len(disk_log)] =
              [op |-> "rename", name |-> WeightName(acting_best_epoch, FALSE),
               to |-> WeightName(acting_best_epoch, TRUE)]

\* Policy 'each': epoch 1 and then epoch 2 improved, both were saved, and the
\* file of epoch 2 was renamed at the end.
C5_Witness ==
    /\ pc = "done"
    /\ opt.save_weight_policy = "each"
    /\ acting_best_epoch = Some(2)
    /\ SavedNotAsBest(Some(2))
    /\ Cardinality(files) = 2

\* The weight file the test run is at, and the snapshot save_weight put in it.
AfterLoadWeight ==
    \/ pc \in {"eval", "test_set_data", "test_forward", "make_likelihood", "save_likelihood"}
    \/ pc = "error" /\ w \in 1..Len(weight_paths)
PersistedSnapshot == torch_load(weight_paths[w].content)

\* C6: round trip: persisting a stored snapshot with save_weight and
\* restoring that file with load_weight leaves the parameters of the network
\* identical to the snapshot.
C6_RoundTrip ==
    (AfterLoadWeight /\ PersistedSnapshot # None) =>
        network.weights = PersistedSnapshot[1].tensors

(***************************************************************************)
(* Properties of the test-time construction.                               *)
(***************************************************************************)
AfterLoadParameter == ~isTrain /\ pc \in {"disable", "device", "align_splits", "dispatch", "created", "error"}
AfterAlignSplits == pc \in {"dispatch", "created", "error"} /\ "test_splits" \in DOMAIN params

\* C7: split reconciliation, for the requested set R and the available set A:
\* if A is a strict subset of R the resolved splits are A; else if R is a
\* strict subset of A they are R; otherwise they are R.
C7_SplitReconciliation ==
    AfterAlignSplits =>
        LET R == test_splits_arg
            A == splits_in_df_source
            resolved == params["test_splits"][1]
        IN  /\ (A \subseteq R /\ A # R) => resolved = A
            /\ (~(A \subseteq R /\ A # R) /\ (R \subseteq A /\ R # A)) => resolved = R
            /\ (~(A \subseteq R /\ A # R) /\ ~(R \subseteq A /\ R # A)) => resolved = R

\* Requested {train, val, test} against available {test} resolves to {test}.
C7_Witness ==
    /\ pc = "created"
    /\ test_splits_arg = {"train", "val", "test"}
    /\ splits_in_df_source = {"test"}
    /\ params["test_splits"] = Some({"test"})

\* The fields that decide the architecture of the network.
ArchFields ==
    {"task", "model", "mlp", "net", "label_list", "num_outputs_for_label", "input_list",
     "normalize_image", "in_channel", "vit_image_size"}
PersistedBySaveParameter == ~isTrain /\ parameters = JsonDump(save_parameter(train_params))

\* C8: for a configuration persisted by save_parameter and any options of the
\* test-time caller, the architecture-relevant fields of the test
\* configuration equal the values recorded at training time.
C8_ArchitectureFromTraining ==
    (AfterLoadParameter /\ PersistedBySaveParameter) =>
        \A f \in ArchFields : f \in DOMAIN params /\ params[f] = train_params[f]

\* The caller supplied a task and a net of its own; the fusion configuration
\* of the classification training run is what the model is built from.
C8_Witness ==
    /\ pc = "created"
    /\ PersistedBySaveParameter
    /\ args = TestArgsOwn
    /\ train_params["task"] = Some("classification")
    /\ train_params["net"] = Some("ViTb16")
    /\ params["task"] = Some("classification")
    /\ params["net"] = Some("ViTb16")
    /\ model = Some("FusionModel")

MissingFields == {f \in ArchFields : f \notin DOMAIN parameters}

\* C9 as claimed: if the persisted training configuration lacks a required
\* architecture field, test-time construction ends in a fatal error and never
\* proceeds with a defaulted or empty value for that field.
C9_MissingFieldIsFatal ==
    (AfterLoadParameter /\ MissingFields # {}) => pc = "error"

\* C9 as amended: a required field the persisted configuration lacks is set to
\* None by the loading loop, which raises no error; construction goes on with
\* that value.
C9_MissingFieldBecomesNone ==
    AfterLoadParameter =>
        \A k \in 1..Len(required_for_test) :
            LET f == required_for_test[k]
            IN  /\ f \in DOMAIN params
                /\ f \notin DOMAIN parameters => params[f] = None

\* The file of a fusion configuration lacks 'mlp': the field is None, and the
\* disabling of the training-only behaviours is the next step.
C9_Witness ==
    /\ pc = "disable"
    /\ train_params["mlp"] = Some("MLP")
    /\ train_params["net"] = Some("ViTb16")
    /\ "mlp" \notin DOMAIN parameters
    /\ params["mlp"] = None

\* The model class of each modality and task family.
VariantTable ==
    [tabular |-> [point |-> "MLPModel", survival |-> "MLPDeepSurv"],
     image   |-> [point |-> "CVModel", survival |-> "CVDeepSurv"],
     fusion  |-> [point |-> "FusionModel", survival |-> "FusionDeepSurv"]]

ResolvedTask == Get(params, "task")
ResolvedModality ==
    IF Get(params, "mlp") # None /\ Get(params, "net") = None THEN "tabular"
    ELSE IF Get(params, "mlp") = None /\ Get(params, "net") # None THEN "image"
    ELSE IF Get(params, "mlp") # None /\ Get(params, "net") # None THEN "fusion"
    ELSE "none"
ResolvedFamily ==
    IF ResolvedTask \in {Some("classification"), Some("regression")} THEN "point"
    ELSE IF ResolvedTask = Some("deepsurv") THEN "survival"
    ELSE "none"
DispatchDone ==
    \/ pc = "created"
    \/ pc = "error" /\ error \in {Some("ValueError: Invalid model type"), Some("ValueError: Invalid task")}

\* C10: on a valid configuration (one of the three modalities, one of the two
\* task families) create_model selects exactly one of the six model classes,
\* the one of the modality and the task family of the resolved configuration.
C10_DispatchTable ==
    (DispatchDone /\ ResolvedModality # "none" /\ ResolvedFamily # "none") =>
        /\ pc = "created"
        /\ model = Some(VariantTable[ResolvedModality][ResolvedFamily])

C10_Witness ==
    /\ pc = "created"
    /\ ResolvedModality = "fusion"
    /\ ResolvedFamily = "survival"
    /\ model = Some("FusionDeepSurv")

\* The configuration create_model dispatches on asks for no modality, or for
\* a task that is none of the three.
NoModality == Get(params, "mlp") = None /\ Get(params, "net") = None
UnknownTask == ResolvedTask = None \/ ResolvedTask[1] \notin Tasks
AskedInvalid ==
    /\ isTrain
    /\ \/ args.task[1] \notin Tasks
       \/ args.mlp = None /\ args.net = None

\* C11: create_model with no modality configured (neither tabular nor image)
\* or with an unknown task name ends in a fatal configuration error and
\* returns no model; it never falls back to a default variant.
C11_InvalidConfigurationIsFatal ==
    /\ model # None => pc = "created"
    /\ pc = "created" => (model # None /\ ~NoModality /\ ~UnknownTask)
    /\ AskedInvalid => (model = None /\ pc \in {"TrainModelParam", "dispatch", "error"})
    /\ (AskedInvalid /\ pc = "error") =>
          error \in {Some("ValueError: Invalid task"), Some("ValueError: Invalid model type")}
    /\ (pc = "error" /\ error = Some("ValueError: Invalid model type")) => NoModality
    /\ (pc = "error" /\ error = Some("ValueError: Invalid task")) => (isTrain \/ UnknownTask)

\* A training run for a known task with neither an MLP nor a net ends in the
\* ValueError of the dispatch.
C11_Witness ==
    /\ pc = "error"
    /\ isTrain
    /\ args.task = Some("classification")
    /\ args.mlp = None /\ args.net = None
    /\ error = Some("ValueError: Invalid model type")
    /\ model = None

\* The driver is in the training run, and the network is the one of that run.
InTraining ==
    pc \in {"epoch_loop", "phase", "set_data", "forward", "cal_batch_loss", "backward",
            "optimize_parameters", "cal_running_loss", "cal_epoch_loss",
            "is_total_val_loss_updated", "store_weight", "save_weight"} \cup TrainEnd
CanonicalParameters(nw) == [prefix |-> "", tensors |-> nw.weights]
ParametersOf(sd) == [prefix |-> sd[1].prefix, tensors |-> sd[1].tensors]

\* C13: store_weight takes a deep copy: the stored snapshot equals the
\* canonical (non-wrapper) parameters of the network at the moment of the
\* call, later optimizer steps never change the snapshot until the next
\* store_weight, and store_weight leaves the parameters and the device
\* placement of the live network unchanged.
C13_StoreWeightDeepCopy ==
    /\ [][pc = "store_weight" =>
            /\ acting_best_weight' # None
            /\ ParametersOf(acting_best_weight') = CanonicalParameters(network)
            /\ network' = network]_vars
    /\ [][(InTraining /\ pc # "store_weight" /\ pc # "done") =>
            acting_best_weight' = acting_best_weight]_vars

\* The snapshot was taken from a network replicated over the devices, and the
\* optimizer has stepped since: the snapshot holds the earlier parameters.
C13_Witness ==
    /\ pc = "cal_running_loss"
    /\ network.wrapped
    /\ network.device = "cuda"
    /\ acting_best_weight # None
    /\ acting_best_weight[1].prefix = ""
    /\ acting_best_weight[1].tensors < network.weights

\* The weight files with the suffix '_best'.
BestFiles == {f \in files : f.name.best}
\* The parameters at the end of epoch e: every batch of the train phase of the
\* epochs 0..e has taken one optimizer step.
ParametersAtEndOf(e) == InitWeights + (e + 1) * TrainBatches

\* C14: after a training run of at least one epoch, under either save-weight
\* policy, the weights directory contains exactly one best-suffixed weight
\* file; its name carries the best epoch index and its content is the
\* parameter snapshot taken at the end of that best epoch (not the parameters
\* of the last epoch).
C14_OneBestFile ==
    (pc \in {"save_parameter", "done"} /\ opt.epochs >= 1) =>
        /\ Cardinality(BestFiles) = 1
        /\ \A f \in BestFiles :
              LET best == FirstMinIndex(ValTotals) - 1
              IN  /\ f.name = WeightName(Some(best), TRUE)
                  /\ torch_load(f.content) # None
                  /\ ParametersOf(torch_load(f.content)) =
                        [prefix |-> "", tensors |-> ParametersAtEndOf(best)]
                  /\ f.content = torch_save(acting_best_weight)

\* Three epochs of which the second is the best one: the best file holds the
\* parameters of the end of epoch 1, the network those of the end of epoch 2.
C14_Witness ==
    /\ pc = "done"
    /\ opt.epochs = 3
    /\ opt.save_weight_policy = "each"
    /\ FirstMinIndex(ValTotals) = 2
    /\ network.weights = ParametersAtEndOf(2)
    /\ \E f \in files :
          /\ f.name = WeightName(Some(1), TRUE)
          /\ torch_load(f.content)[1].tensors = ParametersAtEndOf(1)

\* The driver is inside epoch `epoch`, before the decision at its end.
MidEpoch ==
    pc \in {"phase", "set_data", "forward", "cal_batch_loss", "backward",
            "optimize_parameters", "cal_running_loss", "cal_epoch_loss",
            "is_total_val_loss_updated"}
FailedMidEpoch == pc = "error" /\ error = Some("RuntimeError: forward")

\* Nothing of epoch `epoch` or a later one is in the snapshot, the best epoch
\* or the weight files.
AsAtEndOfPreviousEpoch ==
    /\ \A k \in 1..Len(store_log) : store_log[k] < epoch
    /\ acting_best_epoch # None => acting_best_epoch[1] < epoch
    /\ acting_best_weight # None =>
          /\ epoch >= 1
          /\ acting_best_weight[1].tensors = ParametersAtEndOf(acting_best_epoch[1])
    /\ (acting_best_weight = None) = (acting_best_epoch = None)
    /\ \A f \in files : f.name.epoch # None /\ f.name.epoch[1] < epoch

\* C15: a best-weight update for epoch e happens only after both the train
\* phase and the val phase of e have been finalized; a failure in the middle
\* of an epoch leaves the stored snapshot, the best epoch and the weight files
\* as they were at the end of the previous epoch.
C15_NoPartialEpochCheckpoint ==
    /\ [](pc \in {"store_weight", "save_weight"} =>
            /\ Len(History("total", "train")) = epoch + 1
            /\ Len(History("total", "val")) = epoch + 1)
    /\ []((MidEpoch \/ FailedMidEpoch) => AsAtEndOfPreviousEpoch)
    /\ [][MidEpoch =>
            /\ acting_best_weight' = acting_best_weight
            /\ acting_best_epoch' = acting_best_epoch
            /\ files' = files]_vars

\* The forward pass fails in the val phase of the third epoch: the snapshot
\* and the only weight file are those of the second epoch.
C15_Witness ==
    /\ FailedMidEpoch
    /\ epoch = 2
    /\ phase = "val"
    /\ network.weights = ParametersAtEndOf(2)
    /\ acting_best_epoch = Some(1)
    /\ acting_best_weight[1].tensors = ParametersAtEndOf(1)
    /\ \E f \in files : files = {f} /\ f.name = WeightName(Some(1), FALSE)

\* save_learning_curve has returned, and the histories are still in memory.
CurveSaved == pc \in {"save_weight_as_best", "save_parameter", "done"}
TableOf(k) == CHOOSE f \in learning_curve : f.name.label_name = k

C12_LoadIntoCanonical ==
    /\ (pc = "load_weight" /\ gpu_requested) => ~network.wrapped
    /\ (pc = "collect_weight" /\ gpu_requested) => ~network.wrapped

\* The driver is in the pass of the weight file weight_paths[w].
InPass ==
    pc \in {"load_weight", "eval", "test_set_data", "test_forward", "make_likelihood",
            "save_likelihood"}
\* The weight files whose pass is finished.
Flushed == IF pc = "test_done" THEN w ELSE w - 1
\* The rows of one pass over weight file k: one for every sample of every
\* batch of every resolved split, in the order of the loops.
RowKeysOfPass(k) ==
    [j \in 1..(Len(test_splits) * TestBatches) |->
        [weight |-> weight_paths[k].name,
         split |-> test_splits[((j - 1) \div TestBatches) + 1],
         batch |-> ((j - 1) % TestBatches) + 1]]
RowKeys(rows) ==
    [j \in 1..Len(rows) |->
        [weight |-> rows[j].weight, split |-> rows[j].split, batch |-> rows[j].batch]]

\* C17: the likelihood artifact written for a weight file contains exactly
\* the rows accumulated during the pass of that weight file (one per evaluated
\* sample of each resolved test split) and no row of the pass of an earlier
\* weight file: the record is empty when the pass of each weight file starts,
\* and it is flushed exactly once per weight file, after the batches of all
\* splits of that pass.
C17_LikelihoodPerWeightFile ==
    /\ pc = "load_weight" => likelihood = <<>>
    /\ pc = "save_likelihood" => RowKeys(likelihood) = RowKeysOfPass(w)
    /\ (InPass \/ pc = "test_done") =>
          /\ Cardinality(likelihood_files) = Flushed
          /\ \A k \in 1..Flushed :
                \E f \in likelihood_files :
                    /\ f.name = weight_paths[k].name
                    /\ RowKeys(f.rows) = RowKeysOfPass(k)
    /\ (InPass \/ pc = "test_done") =>
          \A j \in 1..Len(likelihood) : likelihood[j].weight = weight_paths[w].name

\* Two weight files are evaluated: two artifacts, each with the rows of its
\* own pass, and the outputs of the second come from the second file.
C17_Witness ==
    /\ pc = "test_done"
    /\ Len(weight_paths) = 2
    /\ Cardinality(likelihood_files) = 2
    /\ \E f \in likelihood_files :
          /\ f.name = weight_paths[2].name
          /\ Len(f.rows) = Len(test_splits) * TestBatches
          /\ \A j \in 1..Len(f.rows) :
                f.rows[j].output = torch_load(weight_paths[2].content)[1].tensors

(***************************************************************************)
(* Properties of the instances of one process.                             *)
(***************************************************************************)
\* C16: the best-weight snapshot and the best epoch are state of one training
\* run: store_weight on one model instance never changes the acting best
\* weight or the acting best epoch observed by another model instance in the
\* same process.
C16_SnapshotPerInstance ==
    [][\A m \in Instances : \A n \in Instances \ {m} :
          models'[m].stored # models[m].stored =>
              /\ getattr(n, "acting_best_weight")' = getattr(n, "acting_best_weight")
              /\ getattr(n, "acting_best_epoch")' = getattr(n, "acting_best_epoch")]_vars

\* Instance 1 has stored the weight of its second epoch; instance 2, at the
\* end of its first epoch and before its own store_weight, observes None.
C16_Witness ==
    /\ pc = "instances"
    /\ models[1].stored = 2
    /\ getattr(1, "acting_best_epoch") = Some(1)
    /\ getattr(1, "acting_best_weight") # None
    /\ models[2].at = "store_weight"
    /\ models[2].stored = 0
    /\ getattr(2, "acting_best_epoch") = None
    /\ getattr(2, "acting_best_weight") = None

(***************************************************************************)
(* Properties of BaseNet.                                                  *)
(***************************************************************************)
Catalog == net \cup {"MLP"}

\* C19: for every backbone name of the catalog (including 'MLP') and every
\* label-to-cardinality map, construct_multi_classifier returns exactly one
\* head per label, keyed by the label name, whose output dimension equals the
\* cardinality of that label; labels {A: 2, B: 3} give exactly two heads with
\* the output dimensions 2 and 3.
C19_OneHeadPerLabel ==
    (multi_classifier # None /\ net_name \in Catalog) =>
        /\ multi_classifier[1].error = None
        /\ multi_classifier[1].value # None
        /\ LET classifiers == multi_classifier[1].value[1]
           IN  /\ DOMAIN classifiers = DOMAIN num_classes_in_internal_label
               /\ \A l \in DOMAIN classifiers :
                     classifiers[l].out_features = num_classes_in_internal_label[l]

C19_Witness ==
    /\ net_name = "ViTb16"
    /\ num_classes_in_internal_label = [label_A |-> 2, label_B |-> 3]
    /\ multi_classifier # None
    /\ multi_classifier[1].error = None
    /\ DOMAIN multi_classifier[1].value[1] = {"label_A", "label_B"}
    /\ multi_classifier[1].value[1]["label_A"].out_features = 2
    /\ multi_classifier[1].value[1]["label_B"].out_features = 3

\* C20: requesting an extractor or classifier heads for a backbone name
\* outside the catalog, or the extractor of a patch-based transformer
\* backbone without an integer input resolution, fails with an error at
\* construction time and yields no network.
C20_UnknownBackboneIsFatal ==
    /\ (extractor # None /\ net_name \notin Catalog) =>
          (extractor[1].error = Some("AssertionError: No specified net") /\ extractor[1].value = None)
    /\ (multi_classifier # None /\ net_name \notin Catalog) =>
          (multi_classifier[1].error = Some("KeyError") /\ multi_classifier[1].value = None)
    /\ (extractor # None /\ net_name \in vit /\ ~isinstance_int(vit_image_size)) =>
          /\ extractor[1].error = Some("AssertionError: Invalid image size for ViT")
          /\ extractor[1].value = None

\* 'B3' starts with 'B' and is no EfficientNet of the catalog: neither an
\* extractor nor heads are built.
C20_Witness ==
    /\ net_name = "B3"
    /\ extractor # None
    /\ extractor[1].value = None
    /\ multi_classifier # None
    /\ multi_classifier[1].error = Some("KeyError")

(***************************************************************************)
(* One batch through a variant (SpecBatch)                                 *)
(***************************************************************************)
AfterForward == network_args # None

\* The modality inputs the class of the model uses.
UsedInputs(cls) ==
    (IF cls \in {"MLPModel", "FusionModel", "MLPDeepSurv", "FusionDeepSurv"} THEN {"inputs"} ELSE {})
    \cup (IF cls \in {"CVModel", "FusionModel", "CVDeepSurv", "FusionDeepSurv"} THEN {"image"} ELSE {})

\* C21: in each of the six variants, once forward has run, every tensor it
\* has passed to the network resides on the compute device of the model, and
\* the tensors passed are the modality inputs the variant uses.
C21_ForwardPassesDeviceTensors ==
    AfterForward =>
        /\ \A k \in 1..Len(network_args[1]) : network_args[1][k].device = device
        /\ {network_args[1][k].name : k \in 1..Len(network_args[1])} = UsedInputs(model[1])

\* The tabular classification/regression model on a GPU has passed its input.
C21_Failing ==
    /\ AfterForward
    /\ model = Some("MLPModel")
    /\ device = "cuda"
    /\ network_args[1][1].device = "cpu"
    /\ self_attrs.input = Some(to(data[1].inputs, "cuda"))

EmptyLabelMap == data # None /\ data[1].labels = <<>>

\* C24: cal_batch_loss on a batch whose label map is empty ends the run with
\* the assertion error of multi_label_to_device, and the loss regulator is not
\* invoked: batch loss, running sums and loss histories stay as they were.
C24_EmptyLabelMapIsFatal ==
    /\ [](EmptyLabelMap /\ pc \in {"batch:done", "error"} =>
            /\ pc = "error"
            /\ error = Some("AssertionError: multi-label is empty.")
            /\ loss_reg = LossRegInit)
    /\ [][pc = "batch:cal_batch_loss" /\ EmptyLabelMap =>
            /\ pc' = "error"
            /\ loss_reg' = loss_reg
            /\ self_attrs' = self_attrs]_vars

\* A survival model over both modalities met an empty label map after forward.
C24_Witness ==
    /\ EmptyLabelMap
    /\ model = Some("FusionDeepSurv")
    /\ AfterForward
    /\ pc = "error"
    /\ loss_reg = LossRegInit

(***************************************************************************)
(* The test configuration                                                  *)
(***************************************************************************)
AfterDisableTrainOnly ==
    ~isTrain /\ pc \in {"device", "align_splits", "dispatch", "created", "error"}

\* C22: from the point where test-time construction has disabled the
\* training-only behaviours, the test configuration has augmentation 'no',
\* sampler 'no' and pretrained False, whatever the training run persisted and
\* whatever the caller of the test run passed for them.
C22_TrainOnlyDisabledAtTest ==
    AfterDisableTrainOnly =>
        /\ Get(params, "augmentation") = Some("no")
        /\ Get(params, "sampler") = Some("no")
        /\ Get(params, "pretrained") = Some(FALSE)

\* The caller asked for augmentation, sampling and pretrained weights, the
\* training run had them too, and the model has been created without them.
C22_Witness ==
    /\ ~isTrain
    /\ pc = "created"
    /\ Get(args, "augmentation") = Some("trivialaugwide")
    /\ Get(args, "sampler") = Some("yes")
    /\ Get(args, "pretrained") = Some(TRUE)
    /\ Get(train_params, "augmentation") = Some("randaug")
    /\ Get(params, "augmentation") = Some("no")
    /\ Get(params, "sampler") = Some("no")
    /\ Get(params, "pretrained") = Some(FALSE)

(***************************************************************************)
(* The availability of the requested device                                *)
(***************************************************************************)
NoGpuError == error = Some("AssertionError: No avalibale GPU on this machine.")
\* The steps of the two drivers that work on a batch.
BatchWork ==
    {"set_data", "forward", "cal_batch_loss", "backward", "optimize_parameters",
     "cal_running_loss", "test_set_data", "test_forward", "make_likelihood"}
NoBatchProcessed ==
    /\ i = 1
    /\ loss = None
    /\ loss_reg = LossRegInit
    /\ likelihood = <<>>
    /\ likelihood_files = {}

\* C23: with a non-empty gpu_ids, torch.cuda.is_available() is asked at most
\* once in a run (training or test), it has been asked and has answered True
\* whenever a batch is worked on or the run has ended normally, and when it
\* answers False the run ends with the assertion error before any batch has
\* been processed.
C23_GpuCheckedOnceBeforeBatches ==
    /\ Len(cuda) <= 1
    /\ cuda # None => gpu_requested
    /\ cuda = <<FALSE>> => pc = "error" /\ NoGpuError /\ NoBatchProcessed
    /\ gpu_requested /\ pc \in BatchWork \cup {"done", "test_done"} => cuda = <<TRUE>>

\* A test run on a machine without a GPU, over the weights of a training run
\* that had one, has failed at its first load_weight.
C23_Witness ==
    /\ gpu_requested
    /\ weight_paths # <<>>
    /\ w = 1
    /\ cuda = <<FALSE>>
    /\ pc = "error"
    /\ NoGpuError
    /\ NoBatchProcessed

(***************************************************************************)
(* The order of the training driver                                        *)
(***************************************************************************)
EpochInProgress == MidEpoch \/ pc \in {"store_weight", "save_weight"}
TrainPhaseFinalized == EpochInProgress /\ phase = "val"
ValPhaseFinalized == pc \in {"is_total_val_loss_updated", "store_weight", "save_weight"}
BatchSteps ==
    {"set_data", "forward", "cal_batch_loss", "backward", "optimize_parameters",
     "cal_running_loss"}
InBatch == pc \in BatchSteps

\* One step of the driver inside a phase follows the order of train.py:31-45.
DriverStepInOrder ==
    /\ pc = "set_data" => pc' = "forward"
    /\ pc = "forward" => pc' \in {"cal_batch_loss", "error"}
    /\ pc = "cal_batch_loss" => pc' = IF phase = "train" THEN "backward" ELSE "cal_running_loss"
    /\ pc = "backward" => pc' = "optimize_parameters" /\ phase = "train"
    /\ pc = "optimize_parameters" => pc' = "cal_running_loss" /\ phase = "train"
    /\ pc = "cal_running_loss" =>
          /\ i' = i + 1
          /\ pc' = IF i < Len(dataloaders[phase]) THEN "set_data" ELSE "cal_epoch_loss"
    /\ pc = "cal_epoch_loss" =>
          /\ i = Len(dataloaders[phase]) + 1
          /\ \A k \in LossKeys :
                /\ Len(loss_reg'.epoch_loss[k][phase]) = Len(History(k, phase)) + 1
                /\ \A ph \in {"train", "val"} \ {phase} :
                      loss_reg'.epoch_loss[k][ph] = History(k, ph)
          /\ IF phase = "train"
             THEN pc' = "phase" /\ phase' = "val"
             ELSE pc' = "is_total_val_loss_updated" /\ phase' = phase
    /\ pc \in BatchSteps \ {"cal_running_loss"} => i' = i
    /\ InBatch \/ pc = "cal_epoch_loss" => epoch' = epoch
    /\ InBatch => phase' = phase /\ i \in 1..Len(dataloaders[phase])
    /\ pc # "cal_epoch_loss" /\ pc' # "collect_weight" =>
          \A k \in LossKeys : \A ph \in {"train", "val"} :
              loss_reg'.epoch_loss[k][ph] = History(k, ph)

\* C25: in the training driver every batch goes through set_data, forward,
\* cal_batch_loss, then in the train phase backward and optimize_parameters,
\* then cal_running_loss, in that order and once each before the next batch;
\* cal_epoch_loss runs once per phase per epoch after the last batch of the
\* phase (every history grows by one entry per phase per epoch), and the
\* train phase of an epoch is finalized before its val phase begins.
C25_DriverOrder ==
    /\ [](InTraining =>
            \A k \in LossKeys :
                /\ Len(History(k, "train")) = epoch + (IF TrainPhaseFinalized THEN 1 ELSE 0)
                /\ Len(History(k, "val")) = epoch + (IF ValPhaseFinalized THEN 1 ELSE 0))
    /\ [][DriverStepInOrder]_vars

\* The last batch of the val phase of the second epoch is about to be
\* accumulated: the train phase of that epoch is finalized, its val phase not.
C25_Witness ==
    /\ pc = "cal_running_loss"
    /\ epoch = 1
    /\ phase = "val"
    /\ i = ValBatches
    /\ loss # None
    /\ Len(History("total", "train")) = 2
    /\ Len(History("total", "val")) = 1
    /\ network.weights = InitWeights + 2 * TrainBatches

(***************************************************************************)
(* The gradient step and the phases                                        *)
(***************************************************************************)
\* C26: backward and optimize_parameters are reached in the train phase only;
\* from the first step of the val phase of an epoch to the end of that epoch
\* no step changes the parameters of the network; so at store_weight the
\* network holds the parameters the last train batch of the epoch has left,
\* and these are the parameters of the snapshot store_weight takes.
C26_GradientStepInTrainOnly ==
    /\ [](pc \in {"backward", "optimize_parameters"} => phase = "train")
    /\ [](pc = "store_weight" => network.weights = ParametersAtEndOf(epoch))
    /\ [][EpochInProgress /\ phase = "val" => network'.weights = network.weights]_vars
    /\ [][pc = "store_weight" =>
            /\ acting_best_weight' # None
            /\ acting_best_weight'[1].tensors = ParametersAtEndOf(epoch)
            /\ acting_best_epoch' = Some(epoch)]_vars

\* The snapshot of the second epoch has been stored after a val phase of that
\* epoch: it holds the parameters of the last train batch of that epoch.
C26_Witness ==
    /\ pc = "epoch_loop"
    /\ epoch = 2
    /\ ValBatches >= 1
    /\ Len(History("total", "val")) = 2
    /\ store_log # <<>>
    /\ store_log[Len(store_log)] = 1
    /\ acting_best_weight # None
    /\ acting_best_weight[1].tensors = ParametersAtEndOf(1)
    /\ network.weights = ParametersAtEndOf(1)

(***************************************************************************)
(* The running sums                                                        *)
(***************************************************************************)
\* Before the first batch of the phase is accumulated.
AtPhaseStart == pc = "phase" \/ (pc \in BatchSteps \ {"cal_running_loss"} /\ i = 1)
LastOf(h) == h[Len(h)]

\* C28: the running sums are zero from the start of every phase of every
\* epoch until the first batch of the phase is accumulated; the first
\* accumulation of a phase leaves exactly the weighted loss of that batch, every
\* later one adds the weighted loss of its batch, and the epoch loss recorded
\* for the phase is the running sum over the batches of that phase divided by
\* the dataset size.
C28_RunningSumsStartAtZero ==
    /\ [](AtPhaseStart => loss_reg.running_loss = ZeroLoss)
    /\ [][pc = "cal_running_loss" =>
            \A k \in LossKeys :
                loss_reg'.running_loss[k] =
                    (IF i = 1 THEN 0 ELSE loss_reg.running_loss[k])
                    + loss_reg.batch_loss[k] * dataloaders[phase][i].imgpath]_vars
    /\ [][pc = "cal_epoch_loss" =>
            \A k \in LossKeys :
                LastOf(loss_reg'.epoch_loss[k][phase]) =
                    Frac(loss_reg.running_loss[k], DatasetLen(dataloaders[phase]))]_vars

\* The val phase of the second epoch starts at zero after a train phase that
\* has accumulated a loss, and after a first epoch that has accumulated one.
C28_Witness ==
    /\ pc = "phase"
    /\ phase = "val"
    /\ epoch = 1
    /\ loss_reg.running_loss = ZeroLoss
    /\ LastOf(History("total", "train")).num > 0
    /\ History("total", "val")[1].num > 0

(***************************************************************************)
(* The nesting of the loops of a test run                                  *)
(***************************************************************************)
\* C27 as stated: the loop over the weight files is the innermost one, inside
\* the loop over the test splits: the driver goes on to the next split only
\* when the last weight file has been evaluated on the current one, and going
\* on to the next weight file leaves the split as it is.
C27_WeightLoopInnermost ==
    [][/\ split' > split => w = Len(weight_paths)
       /\ w' # w => split' = split]_vars

\* C27, amended: the loop over the weight files is the outermost one.  The
\* driver goes on to the next weight file only from save_likelihood, when the
\* last batch of the last test split has been evaluated with the current
\* one; every pass starts again at the first split; inside a pass the splits
\* follow one another after the last batch of each, with the weight file
\* unchanged; and the rows gathered in a pass all belong to its weight file.
C27_WeightLoopOutermost ==
    /\ [](InPass => \A k \in 1..Len(likelihood) : likelihood[k].weight = weight_paths[w].name)
    /\ [][/\ w' # w =>
               /\ pc = "save_likelihood"
               /\ split = Len(test_splits)
               /\ w' = w + 1
          /\ pc = "eval" => split' = 1 /\ i' = 1
          /\ split' > split /\ pc # "eval" =>
               /\ pc = "make_likelihood"
               /\ split' = split + 1
               /\ i = Len(test_dataloaders[test_splits[split]])
               /\ w' = w]_vars

\* The second weight file is evaluated on the last split after the first one
\* has been evaluated on every split and its rows have been written.
C27_Witness ==
    /\ Len(weight_paths) = 2
    /\ w = 2
    /\ split = Len(test_splits)
    /\ pc = "make_likelihood"
    /\ Cardinality(likelihood_files) = 1
    /\ \E f \in likelihood_files :
          /\ f.name = weight_paths[1].name
          /\ {f.rows[k].split : k \in 1..Len(f.rows)} = {test_splits[k] : k \in 1..Len(test_splits)}

(***************************************************************************)
(* The resolved test splits and the data source                            *)
(***************************************************************************)
ResolvedSplits == params["test_splits"][1]
Comparable(a, b) == a \subseteq b \/ b \subseteq a

\* C29 as stated: for every requested and available set of splits, every
\* resolved test split is present in the data source, and no dataloader is
\* built for a split the data source does not have.
C29_ResolvedSplitsInDataSource ==
    AfterAlignSplits =>
        /\ ResolvedSplits \subseteq splits_in_df_source
        /\ DOMAIN params["dataloaders"][1] \subseteq splits_in_df_source

\* C29, amended: a dataloader is built for exactly the resolved test splits;
\* when one of the requested and the available set contains the other, every
\* resolved split is present in the data source; when neither contains the
\* other, the resolved splits are the requested ones, and at least one of
\* them is a split the data source does not have.
C29_ResolvedInDataSourceWhenComparable ==
    AfterAlignSplits =>
        /\ DOMAIN params["dataloaders"][1] = ResolvedSplits
        /\ Comparable(test_splits_arg, splits_in_df_source) =>
              ResolvedSplits \subseteq splits_in_df_source
        /\ ~Comparable(test_splits_arg, splits_in_df_source) =>
              /\ ResolvedSplits = test_splits_arg
              /\ ResolvedSplits \ splits_in_df_source # {}

\* Requested {val, test} against a data source holding {train, test}: a
\* dataloader is built for val.
C29_Witness ==
    /\ pc = "created"
    /\ test_splits_arg = {"val", "test"}
    /\ splits_in_df_source = {"train", "test"}
    /\ ResolvedSplits = {"val", "test"}
    /\ "val" \in DOMAIN params["dataloaders"][1]

(***************************************************************************)
(* The weight files of the policy 'each'                                   *)
(***************************************************************************)
EndOfEachRun ==
    pc \in {"save_parameter", "done"} /\ opt.save_weight_policy = "each" /\ opt.epochs >= 1
BestEpochOfRun == FirstMinIndex(ValTotals) - 1

\* C30 as stated: under 'each', at the end of a training run every epoch whose
\* validation total strictly improved on all earlier epochs, epoch 0 included,
\* has a weight file named by its epoch index.
C30_EveryImprovedEpochHasFile ==
    EndOfEachRun =>
        \A e \in 0..(epoch - 1) :
            StrictlyImproves(ValTotals, e) => FilesOfEpoch(Some(e)) # {}

\* C30, amended: under 'each', at the end of a training run every epoch from
\* epoch 1 on whose validation total strictly improved on all earlier epochs
\* has exactly one weight file named by its epoch index (best-suffixed if it
\* is the best epoch of the run) holding the parameters of the end of that
\* epoch; epoch 0 has a weight file only if it is the best epoch of the run;
\* an epoch that did not improve has none.
C30_ImprovedEpochsAfterFirstHaveFile ==
    EndOfEachRun =>
        \A e \in 0..(epoch - 1) :
            /\ (e >= 1 /\ StrictlyImproves(ValTotals, e)) =>
                  /\ Cardinality(FilesOfEpoch(Some(e))) = 1
                  /\ \A f \in FilesOfEpoch(Some(e)) :
                        /\ f.name = WeightName(Some(e), e = BestEpochOfRun)
                        /\ torch_load(f.content)[1].tensors = ParametersAtEndOf(e)
            /\ e = 0 => (FilesOfEpoch(Some(0)) # {} <=> BestEpochOfRun = 0)
            /\ ~StrictlyImproves(ValTotals, e) => FilesOfEpoch(Some(e)) = {}

\* Three epochs, each better than the ones before: the files of epoch 1 and
\* epoch 2 are on disk, and none of epoch 0.
C30_Witness ==
    /\ pc = "done"
    /\ opt.save_weight_policy = "each"
    /\ opt.epochs = 3
    /\ \A e \in 0..2 : StrictlyImproves(ValTotals, e)
    /\ FilesOfEpoch(Some(0)) = {}
    /\ {f.name : f \in files} = {WeightName(Some(1), FALSE), WeightName(Some(2), TRUE)}

C31_Failing ==
    /\ opt.epochs = 0
    /\ pc = "done"
    /\ store_log = <<>>
    /\ Len(disk_log) = 1
    /\ files # {}
    /\ \A f \in files : f.name = WeightName(None, TRUE) /\ torch_load(f.content) = None

\* With at least one epoch the first epoch is always stored, and every file
\* is named by a stored epoch and holds a snapshot.
C31_HoldsFromOneEpoch ==
    InTraining /\ opt.epochs >= 1 =>
        /\ disk_log # <<>> => store_log # <<>>
        /\ \A f \in files :
              /\ f.name.epoch # None
              /\ Count(store_log, f.name.epoch[1]) = 1
              /\ torch_load(f.content) # None

(***************************************************************************)
(* The extractor of a backbone of the catalog                              *)
(***************************************************************************)
ExtractorAsked ==
    /\ extractor # None
    /\ net_name \in net
    /\ net_name \in vit => isinstance_int(vit_image_size)

\* C32: for every backbone name of the catalog, with an integer input
\* resolution for the patch-based transformers, constuct_extractor raises no
\* error and returns the network of that backbone with the attribute that
\* holds its classifier replaced by nn.Identity().
C32_ExtractorWithIdentityHead ==
    ExtractorAsked =>
        /\ extractor[1].error = None
        /\ extractor[1].value = Some([module |-> net_name, classifier |-> "Identity"])

\* The extractor of ViTb16 at the resolution 224 has been asked for and
\* set_net has raised.
C32_Failing ==
    /\ net_name = "ViTb16"
    /\ vit_image_size = Int_(224)
    /\ extractor # None
    /\ extractor[1].value = None
    /\ extractor[1].error = Some("TypeError: set_vit() takes 3 positional arguments but 4 were given")

\* For the convolutional backbones of the catalog the extractor is built.
C32_HoldsForCnn ==
    extractor # None /\ net_name \in cnn =>
        /\ extractor[1].error = None
        /\ extractor[1].value = Some([module |-> net_name, classifier |-> "Identity"])

(***************************************************************************)
(* The heads of different labels                                           *)
(***************************************************************************)
HeadsBuilt == multi_classifier # None /\ multi_classifier[1].error = None
Classifiers == multi_classifier[1].value[1]

\* Heads of two different labels hold no module in common.
NoSharedModule ==
    HeadsBuilt =>
        \A l1, l2 \in DOMAIN Classifiers :
            l1 # l2 => SeqRange(Classifiers[l1].modules) \cap SeqRange(Classifiers[l2].modules) = {}

\* An optimizer step on the head of one label leaves the parameters of the
\* head of every other label as they were.
StepLeavesOtherHeads ==
    \A l \in LabelSet :
        OptimizeHead(l) =>
            \A l2 \in DOMAIN Classifiers \ {l} :
                \A module \in parameters_of(Classifiers[l2]) :
                    head_parameters'[module] = head_parameters[module]

\* C33: for every backbone family, the heads construct_multi_classifier
\* builds for two different labels share no module and no parameter: an
\* optimizer step on the head of one label changes no parameter of the head
\* of another label.
C33_HeadsShareNothing ==
    /\ []NoSharedModule
    /\ [][StepLeavesOtherHeads]_vars

\* ConvNeXtTiny with two labels: one step on the head of label_A has changed
\* the layer normalisation that the head of label_B holds as well.
C33_Failing ==
    /\ net_name = "ConvNeXtTiny"
    /\ HeadsBuilt
    /\ DOMAIN Classifiers = {"label_A", "label_B"}
    /\ Classifiers["label_A"].modules[1] = Classifiers["label_B"].modules[1]
    /\ head_parameters[Classifiers["label_B"].modules[1]] = 1
    /\ head_parameters[Classifiers["label_A"].modules[3]] = 1
    /\ head_parameters[Classifiers["label_B"].modules[3]] = 0

\* For 'MLP' and every backbone of the catalog outside the ConvNeXt family
\* the heads of different labels share nothing.
C33_HoldsOutsideConvNeXt ==
    /\ [](~startswith(net_name, "ConvNeXt") => NoSharedModule)
    /\ [][~startswith(net_name, "ConvNeXt") => StepLeavesOtherHeads]_vars

====
